---------------------------- MODULE Spec2Model ----------------------------
(***************************************************************************)
(* Model of the Business Doctor core: the ROI and portfolio engine         *)
(* (core/business_analyzer.py), the two annualizers and the pipeline       *)
(* (core/business_doctor_engine.py, core/data_pipeline.py), the            *)
(* conversation engine (core/business_doctor_engine.py) and the terminal   *)
(* application (core/terminal_app.py).                                     *)
(*                                                                         *)
(* Numbers.  Python floats are modelled as exact rationals [n, d] in       *)
(* lowest terms with d > 0; float('inf') is the value [n |-> 1, d |-> 0].  *)
(* Rounding error of binary floating point is not modelled, except for the *)
(* confidence level, which is computed in binary64 as the code does: its   *)
(* repeated addition of 0.1 is where the rounding shows in a result.       *)
(* Dicts.  A Python dict is a function whose DOMAIN is the set of keys     *)
(* present, so that dict.get(key, default) and "key in dict" are modelled  *)
(* as the code evaluates them.                                             *)
(* Exceptions.  A call that raises returns the record Raised(kind).        *)
(***************************************************************************)
EXTENDS Integers, Sequences, FiniteSets, TLC

VARIABLES
    calculations,   \* BusinessAnalyzer.calculations (self.calculations)
    bottlenecks,    \* argument: the list of bottleneck dicts of the call
    company,        \* argument: the company_metrics dict of the call
    op,             \* the operation applied to the arguments ("none" before)
    result,         \* what the operation returned (or raised)
    calls,          \* per caller: the call it is executing on the shared analyzer
    record,         \* argument: the DataRecord (id, data) given to an annualizer
    db_bottlenecks, \* the rows of the bottlenecks table, in insertion order
    engine,         \* BusinessDoctorEngine: metrics, bottlenecks, history, stage
    terminal_consultation_id,   \* BusinessDoctorTerminal.consultation_id
    db_consultations    \* the rows of the consultations table

vars ==
    <<calculations, bottlenecks, company, op, result, calls, record, db_bottlenecks,
      engine, terminal_consultation_id, db_consultations>>

----------------------------------------------------------------------------
(* Exact rational arithmetic standing for Python float arithmetic.         *)

RECURSIVE GCD(_, _)
GCD(a, b) == IF b = 0 THEN a ELSE GCD(b, a % b)

Abs(x) == IF x < 0 THEN -x ELSE x

\* The rational n/d (d # 0) in lowest terms with a positive denominator.
Rat(n, d) ==
    LET g == GCD(Abs(n), Abs(d))
        s == IF d < 0 THEN -1 ELSE 1
    IN  [n |-> s * (n \div g), d |-> s * (d \div g)]

R(i) == [n |-> i, d |-> 1]
Inf == [n |-> 1, d |-> 0]          \* float('inf')
Zero == R(0)

\* Sums over the least common denominator and products with the common
\* factors cancelled first keep the intermediate integers small.
RAdd(a, b) ==
    LET g == GCD(a.d, b.d)
    IN  Rat(a.n * (b.d \div g) + b.n * (a.d \div g), (a.d \div g) * b.d)
RNeg(a) == [n |-> -a.n, d |-> a.d]
RSub(a, b) == RAdd(a, RNeg(b))
RMul(a, b) ==
    LET g1 == GCD(Abs(a.n), b.d)
        g2 == GCD(Abs(b.n), a.d)
    IN  Rat((a.n \div g1) * (b.n \div g2), (a.d \div g2) * (b.d \div g1))
RInv(b) == IF b.n < 0 THEN [n |-> -b.d, d |-> -b.n] ELSE [n |-> b.d, d |-> b.n]
RDiv(a, b) == RMul(a, RInv(b))               \* b # 0; the caller guards
RLt(a, b) == a.n * b.d < b.n * a.d           \* also right when a or b is Inf
RGt(a, b) == RLt(b, a)

RECURSIVE RSum(_)
RSum(s) == IF s = <<>> THEN Zero ELSE RAdd(Head(s), RSum(Tail(s)))

\* A raised exception, as the outcome of a call.
Raised(kind) == [raised |-> kind]
IsRaised(r) == "raised" \in DOMAIN r

\* dict.get(key, default)
Get(dict, key, default) == IF key \in DOMAIN dict THEN dict[key] ELSE default

\* str.lower() on the strings the model uses.
Lower(s) ==
    CASE s = "Legal" -> "legal"
      [] s = "MSP" -> "msp"
      [] s = "Weekly" -> "weekly"
      [] s = "DAILY" -> "daily"
      [] OTHER -> s

\* A function on 1..n, evaluated once into a sequence value.
AsSeq(f) == f \o <<>>

\* [x[f] for x in s]
Field(s, f) == AsSeq([k \in 1..Len(s) |-> s[k][f]])

\* Stable sort of the sequence s, descending by keys (keys[i] is the key of
\* s[i]): list.sort(key, reverse=True) and sorted(..., key, reverse=True) keep
\* the order of elements with equal keys.
SortDescStable(s, keys) ==
    LET n == Len(s)
        pos == AsSeq([i \in 1..n |->
                 1 + Cardinality({j \in 1..n : RGt(keys[j], keys[i])})
                   + Cardinality({j \in 1..(i-1) : keys[j] = keys[i]})])
    IN  AsSeq([p \in 1..n |-> s[CHOOSE i \in 1..n : pos[i] = p]])

\* s[:k]
Take(s, k) == SubSeq(s, 1, IF Len(s) < k THEN Len(s) ELSE k)

\* x in s (list membership compares with ==, that is by value)
InList(x, s) == \E i \in 1..Len(s) : s[i] = x


\* '{:,.0f}'.format(x): x rounded to an integer, ties to even.
RoundHalfEven(r) ==
    LET q == r.n \div r.d
        rem == r.n - q * r.d
    IN  IF 2 * rem < r.d THEN q
        ELSE IF 2 * rem > r.d THEN q + 1
        ELSE IF q % 2 = 0 THEN q ELSE q + 1

\* None, as the value of a numeric dict entry.
NoneVal == [none |-> TRUE]

\* bool(dict.get(key)) for a numeric entry: absent, None and 0 are falsy.
TruthyNum(dict, key) ==
    key \in DOMAIN dict /\ dict[key] # NoneVal /\ dict[key] # Zero

\* None, as the value of a string dict entry (a NULL of a TEXT column).
NoneStr == "<None>"

\* bool(dict.get(key)) for a string entry: absent, None and "" are falsy.
TruthyStr(dict, key) == key \in DOMAIN dict /\ dict[key] \notin {"", NoneStr}

----------------------------------------------------------------------------
(* core/business_analyzer.py                                               *)

INDUSTRY_BENCHMARKS ==
    [legal |-> [revenue_per_employee |-> R(200000),
                billable_hours_percentage |-> Rat(65, 100),
                admin_overhead_percentage |-> Rat(35, 100),
                typical_hourly_rate |-> R(300)],
     accounting |-> [revenue_per_employee |-> R(150000),
                billable_hours_percentage |-> Rat(70, 100),
                admin_overhead_percentage |-> Rat(30, 100),
                typical_hourly_rate |-> R(200)],
     consulting |-> [revenue_per_employee |-> R(175000),
                billable_hours_percentage |-> Rat(75, 100),
                admin_overhead_percentage |-> Rat(25, 100),
                typical_hourly_rate |-> R(250)],
     msp |-> [revenue_per_employee |-> R(125000),
                billable_hours_percentage |-> Rat(60, 100),
                admin_overhead_percentage |-> Rat(40, 100),
                typical_hourly_rate |-> R(150)],
     default |-> [revenue_per_employee |-> R(100000),
                billable_hours_percentage |-> Rat(50, 100),
                admin_overhead_percentage |-> Rat(50, 100),
                typical_hourly_rate |-> R(75)]]

\* Variant: the industry matched as it is written.
benchmarks_for_exact_case(company_metrics) ==
    LET industry == Get(company_metrics, "industry", "default")
    IN  IF industry \in DOMAIN INDUSTRY_BENCHMARKS
        THEN INDUSTRY_BENCHMARKS[industry]
        ELSE INDUSTRY_BENCHMARKS["default"]

\* INDUSTRY_BENCHMARKS.get(industry.lower(), INDUSTRY_BENCHMARKS["default"])
benchmarks_for(company_metrics) ==
    LET industry == Lower(Get(company_metrics, "industry", "default"))
    IN  IF industry \in DOMAIN INDUSTRY_BENCHMARKS
        THEN INDUSTRY_BENCHMARKS[industry]
        ELSE INDUSTRY_BENCHMARKS["default"]

_get_hourly_cost(company_metrics) ==
    IF "average_hourly_cost" \in DOMAIN company_metrics
    THEN company_metrics["average_hourly_cost"]
    ELSE LET revenue == Get(company_metrics, "annual_revenue", Zero)
             employees == Get(company_metrics, "employee_count", R(1))
         IN  IF RGt(revenue, Zero) /\ RGt(employees, Zero)
             THEN LET annual_labor_cost == RMul(revenue, Rat(6, 10))
                      total_hours == RMul(employees, R(2000))
                  IN  IF RGt(total_hours, Zero)
                      THEN RDiv(annual_labor_cost, total_hours)
                      ELSE R(75)
             ELSE benchmarks_for(company_metrics).typical_hourly_rate

\* A binary64 value between 0.5 and 2 is kept as the number of units of
\* 2^-55 it holds, in two limbs: hi * 2^28 + lo.
Limb == 268435456

Double(hi, lo) == [hi |-> hi, lo |-> lo]

DoubleHalf == Double(67108864, 0)              \* 0.5 = 2^54 units
DoubleTenth == Double(13421772, 214748365)     \* the binary64 value of 0.1
DoubleOne == Double(134217728, 0)              \* 1.0 = 2^55 units

\* a + b in binary64 for a sum between 0.5 and 2: the exact sum, rounded to
\* the nearest multiple of the unit in the last place (4 units below 1.0,
\* 8 from 1.0 on), ties to the even mantissa.
DoubleAdd(a, b) ==
    LET lo == (a.lo + b.lo) % Limb
        hi == a.hi + b.hi + ((a.lo + b.lo) \div Limb)
        ulp == IF hi >= DoubleOne.hi THEN 8 ELSE 4
        rem == lo % ulp
        down == lo - rem
        up == \/ 2 * rem > ulp
              \/ 2 * rem = ulp /\ (down \div ulp) % 2 = 1
        rounded == IF up THEN down + ulp ELSE down
    IN  Double(hi + (rounded \div Limb), rounded % Limb)

DoubleLt(a, b) == a.hi < b.hi \/ (a.hi = b.hi /\ a.lo < b.lo)

\* "if x: confidence += 0.1"
add_tenth_if(truthy, confidence) ==
    IF truthy THEN DoubleAdd(confidence, DoubleTenth) ELSE confidence

\* confidence after the five tests, before the cap.
confidence_sum(bottleneck, company_metrics) ==
    add_tenth_if(TruthyNum(company_metrics, "employee_count"),
     add_tenth_if(TruthyNum(company_metrics, "annual_revenue"),
      add_tenth_if(TruthyStr(bottleneck, "frequency"),
       add_tenth_if(TruthyNum(bottleneck, "cost_impact"),
        add_tenth_if(TruthyNum(bottleneck, "time_impact_hours"), DoubleHalf)))))

\* min(confidence, 1.0)
_calculate_confidence(bottleneck, company_metrics) ==
    IF DoubleLt(DoubleOne, confidence_sum(bottleneck, company_metrics))
    THEN DoubleOne
    ELSE confidence_sum(bottleneck, company_metrics)

\* Variant: an unrecognized complexity priced as the highest one.
complexity_multiplier_cautious(solution_complexity) ==
    CASE solution_complexity = "low" -> R(10000)
      [] solution_complexity = "medium" -> R(25000)
      [] OTHER -> R(50000)

complexity_multiplier(solution_complexity) ==
    CASE solution_complexity = "low" -> R(10000)
      [] solution_complexity = "medium" -> R(25000)
      [] solution_complexity = "high" -> R(50000)
      [] OTHER -> R(25000)

time_multiplier(solution_complexity) ==
    CASE solution_complexity = "low" -> 30
      [] solution_complexity = "medium" -> 60
      [] solution_complexity = "high" -> 90
      [] OTHER -> 60

\* The annual hours calculate_bottleneck_roi works with: the record's own
\* annual_hours_impact entry, 0 when the record has none.
annual_hours_of(bottleneck) == Get(bottleneck, "annual_hours_impact", Zero)

\* Variant: the ROI formula applied without the annual_savings > 0 branch.
roi_percentage_unguarded(annual_savings, implementation_cost) ==
    RMul(RDiv(RSub(annual_savings, implementation_cost), implementation_cost),
         R(100))

\* calculate_bottleneck_roi, "ROI calculations": the two branches on
\* annual_savings > 0.
roi_percentage_of(annual_savings, implementation_cost) ==
    IF RGt(annual_savings, Zero)
    THEN RMul(RDiv(RSub(annual_savings, implementation_cost), implementation_cost),
              R(100))
    ELSE Zero

payback_period_months_of(annual_savings, implementation_cost) ==
    IF RGt(annual_savings, Zero)
    THEN RMul(RDiv(implementation_cost, annual_savings), R(12))
    ELSE Inf

\* The ROICalculation built from the figures calculate_bottleneck_roi has
\* computed (lines "Improved state" to the ROICalculation constructor).
roi_calculation_of(bottleneck, company_metrics, current_cost, automation_potential, solution_complexity) ==
    LET improved_cost == RMul(current_cost, RSub(R(1), automation_potential))
    IN  [description |-> <<"Automate", Get(bottleneck, "name", "process")>>,
         current_cost |-> current_cost,
         improved_cost |-> improved_cost,
         implementation_cost |-> complexity_multiplier(solution_complexity),
         time_to_implement_days |-> time_multiplier(solution_complexity),
         annual_savings |-> RSub(current_cost, improved_cost),
         roi_percentage |->
             roi_percentage_of(RSub(current_cost, improved_cost),
                               complexity_multiplier(solution_complexity)),
         payback_period_months |->
             payback_period_months_of(RSub(current_cost, improved_cost),
                                      complexity_multiplier(solution_complexity)),
         confidence_level |-> _calculate_confidence(bottleneck, company_metrics)]

\* The ROICalculation that calculate_bottleneck_roi returns (its append to
\* self.calculations is part of the actions), or the exception it raises:
\* None * float and 1 - None raise TypeError.
calculate_bottleneck_roi(bottleneck, company_metrics) ==
    IF annual_hours_of(bottleneck) = NoneVal
       \/ Get(bottleneck, "automation_potential", Rat(7, 10)) = NoneVal
    THEN Raised("TypeError")
    ELSE roi_calculation_of(
             bottleneck, company_metrics,
             RMul(annual_hours_of(bottleneck), _get_hourly_cost(company_metrics)),
             Get(bottleneck, "automation_potential", Rat(7, 10)),
             Get(bottleneck, "solution_complexity", "medium"))

\* The calculations of a portfolio call, in input order (the loop of
\* calculate_portfolio_roi); an entry is Raised(...) where the item raises.
calculations_of(bottleneck_list, company_metrics) ==
    AsSeq([i \in 1..Len(bottleneck_list) |->
        calculate_bottleneck_roi(bottleneck_list[i], company_metrics)])

\* Variant: a sort by roi_percentage that reverses the order of equal entries.
sort_by_roi_ties_reversed(portfolio_calculations) ==
    SortDescStable(
        AsSeq([k \in 1..Len(portfolio_calculations) |->
            portfolio_calculations[Len(portfolio_calculations) + 1 - k]]),
        AsSeq([k \in 1..Len(portfolio_calculations) |->
            portfolio_calculations[Len(portfolio_calculations) + 1 - k].roi_percentage]))

\* portfolio_calculations.sort(key=lambda x: x.roi_percentage, reverse=True)
sort_by_roi(portfolio_calculations) ==
    SortDescStable(portfolio_calculations,
                   Field(portfolio_calculations, "roi_percentage"))

\* portfolio_calculations[:10]
TopN == 10

individual_projects_of(portfolio_calculations) ==
    LET top == Take(portfolio_calculations, TopN)
    IN  AsSeq([k \in 1..Len(top) |->
            [description |-> top[k].description,
             annual_savings |-> top[k].annual_savings,
             roi_percentage |-> top[k].roi_percentage,
             payback_months |-> top[k].payback_period_months,
             confidence |-> top[k].confidence_level]])

\* Variant: the per-item rule (the branch on savings > 0, infinite payback
\* without savings) applied to the totals.
portfolio_roi_as_item(total_annual_savings, total_implementation_cost) ==
    [portfolio_roi |->
         roi_percentage_of(total_annual_savings, total_implementation_cost),
     portfolio_payback |->
         payback_period_months_of(total_annual_savings, total_implementation_cost)]

\* "Portfolio ROI": the branch on total_implementation_cost > 0.  The payback
\* divides by total_annual_savings without a guard: ZeroDivisionError at 0.
portfolio_roi_of(total_annual_savings, total_implementation_cost) ==
    IF RGt(total_implementation_cost, Zero)
    THEN IF total_annual_savings = Zero
         THEN Raised("ZeroDivisionError")
         ELSE [portfolio_roi |->
                   RMul(RDiv(RSub(total_annual_savings, total_implementation_cost),
                             total_implementation_cost), R(100)),
               portfolio_payback |->
                   RMul(RDiv(total_implementation_cost, total_annual_savings), R(12))]
    ELSE [portfolio_roi |-> Zero, portfolio_payback |-> Zero]

\* Variant: the recommendations drawn from the listed projects only.
_generate_recommendations_listed(calcs) ==
    LET listed == Take(calcs, TopN)
        quick_wins == SelectSeq(listed, LAMBDA c :
                          RGt(c.roi_percentage, R(100)) /\ c.time_to_implement_days <= 30)
        high_impact == SelectSeq(listed, LAMBDA c : RGt(c.annual_savings, R(50000)))
    IN  (IF quick_wins # <<>>
         THEN << [rule |-> "quick wins", count |-> Len(quick_wins),
                  savings |-> RoundHalfEven(RSum(Field(quick_wins, "annual_savings")))] >>
         ELSE <<>>)
     \o (IF high_impact # <<>>
         THEN << [rule |-> "high-impact projects", count |-> Len(high_impact),
                  savings |-> RoundHalfEven(RSum(Field(high_impact, "annual_savings")))] >>
         ELSE <<>>)
     \o (IF Len(listed) > 5
         THEN << [rule |-> "phases", count |-> 0, savings |-> 0] >>
         ELSE <<>>)

_generate_recommendations(calcs) ==
    LET quick_wins == SelectSeq(calcs, LAMBDA c :
                          RGt(c.roi_percentage, R(100)) /\ c.time_to_implement_days <= 30)
        high_impact == SelectSeq(calcs, LAMBDA c : RGt(c.annual_savings, R(50000)))
    IN  (IF quick_wins # <<>>
         THEN << [rule |-> "quick wins", count |-> Len(quick_wins),
                  savings |-> RoundHalfEven(RSum(Field(quick_wins, "annual_savings")))] >>
         ELSE <<>>)
     \o (IF high_impact # <<>>
         THEN << [rule |-> "high-impact projects", count |-> Len(high_impact),
                  savings |-> RoundHalfEven(RSum(Field(high_impact, "annual_savings")))] >>
         ELSE <<>>)
     \o (IF Len(calcs) > 5
         THEN << [rule |-> "phases", count |-> 0, savings |-> 0] >>
         ELSE <<>>)

\* sorted(calculations, key=roi_percentage / max(time_to_implement_days, 1),
\*        reverse=True)
roi_per_day(x) ==
    RDiv(x.roi_percentage,
         R(IF x.time_to_implement_days > 1 THEN x.time_to_implement_days ELSE 1))

sorted_calcs_of(calcs) ==
    SortDescStable(calcs, AsSeq([k \in 1..Len(calcs) |-> roi_per_day(calcs[k])]))

PhaseSize == 3

\* The three list comprehensions of _create_implementation_phases; "calc not
\* in phase1" compares ROICalculation dataclasses field by field.
phase1_of(sorted_calcs) ==
    Take(SelectSeq(sorted_calcs, LAMBDA c :
            c.time_to_implement_days <= 30 /\ RGt(c.roi_percentage, R(50))), PhaseSize)

phase2_given(sorted_calcs, phase1) ==
    Take(SelectSeq(sorted_calcs, LAMBDA c :
            ~InList(c, phase1) /\ c.time_to_implement_days <= 90), PhaseSize)

phase3_given(sorted_calcs, phase1, phase2) ==
    Take(SelectSeq(sorted_calcs, LAMBDA c : ~InList(c, phase1 \o phase2)), PhaseSize)

phase2_of(sorted_calcs) == phase2_given(sorted_calcs, phase1_of(sorted_calcs))

phase3_of(sorted_calcs) ==
    phase3_given(sorted_calcs, phase1_of(sorted_calcs), phase2_of(sorted_calcs))

\* Variant: a phase is emitted also when it has no project.
phase_entry_also_empty(number, name, duration, projects) ==
    << [phase |-> number, name |-> name, duration |-> duration,
        projects |-> Field(projects, "description"),
        investment |-> RSum(Field(projects, "implementation_cost")),
        expected_savings |-> RSum(Field(projects, "annual_savings"))] >>

phase_entry(number, name, duration, projects) ==
    IF projects = <<>> THEN <<>>
    ELSE << [phase |-> number, name |-> name, duration |-> duration,
             projects |-> Field(projects, "description"),
             investment |-> RSum(Field(projects, "implementation_cost")),
             expected_savings |-> RSum(Field(projects, "annual_savings"))] >>

phases_of(sorted_calcs) ==
    phase_entry(1, "Quick Wins", "0-30 days", phase1_of(sorted_calcs))
     \o phase_entry(2, "Core Improvements", "31-90 days", phase2_of(sorted_calcs))
     \o phase_entry(3, "Full Transformation", "91-180 days", phase3_of(sorted_calcs))

_create_implementation_phases(calcs) == phases_of(sorted_calcs_of(calcs))

\* The dict calculate_portfolio_roi returns, from the sorted calculations, the
\* totals and the portfolio ROI.
portfolio_dict(portfolio_calculations, totals, roi) ==
    IF IsRaised(roi) THEN roi
    ELSE [individual_projects |-> individual_projects_of(portfolio_calculations),
          portfolio_summary |->
              [total_current_cost |-> totals.current_cost,
               total_improved_cost |-> totals.improved_cost,
               total_implementation_cost |-> totals.implementation_cost,
               total_annual_savings |-> totals.annual_savings,
               portfolio_roi_percentage |-> roi.portfolio_roi,
               portfolio_payback_months |-> roi.portfolio_payback,
               number_of_improvements |-> Len(portfolio_calculations)],
          recommendations |-> _generate_recommendations(portfolio_calculations),
          implementation_phases |->
              _create_implementation_phases(portfolio_calculations)]

\* Variant: the four sums over the listed top of the ranking only.
totals_of_listed(portfolio_calculations) ==
    [current_cost |-> RSum(Field(Take(portfolio_calculations, TopN), "current_cost")),
     improved_cost |->
         RSum(Field(Take(portfolio_calculations, TopN), "improved_cost")),
     implementation_cost |->
         RSum(Field(Take(portfolio_calculations, TopN), "implementation_cost")),
     annual_savings |->
         RSum(Field(Take(portfolio_calculations, TopN), "annual_savings"))]

\* "Calculate portfolio metrics": the four sums.
totals_of(portfolio_calculations) ==
    [current_cost |-> RSum(Field(portfolio_calculations, "current_cost")),
     improved_cost |-> RSum(Field(portfolio_calculations, "improved_cost")),
     implementation_cost |->
         RSum(Field(portfolio_calculations, "implementation_cost")),
     annual_savings |-> RSum(Field(portfolio_calculations, "annual_savings"))]

portfolio_of_sorted(portfolio_calculations, totals) ==
    portfolio_dict(portfolio_calculations, totals,
                   portfolio_roi_of(totals.annual_savings, totals.implementation_cost))

\* calculate_portfolio_roi after its loop: from the list of calculations (in
\* input order) to the returned dict.  The list is sorted in place, so the
\* recommendations and the phases are computed from the sorted list.
portfolio_of(calcs_in_input_order) ==
    portfolio_of_sorted(sort_by_roi(calcs_in_input_order),
                        totals_of(sort_by_roi(calcs_in_input_order)))

\* The index of the first item whose calculation raises, 0 when none does.
first_raising(calcs) ==
    IF \E i \in 1..Len(calcs) : IsRaised(calcs[i])
    THEN CHOOSE i \in 1..Len(calcs) :
            IsRaised(calcs[i]) /\ \A j \in 1..(i-1) : ~IsRaised(calcs[j])
    ELSE 0

\* The outcome of calculate_portfolio_roi given what each item's calculation
\* gives: the exception of the first item that raises, else the portfolio.
portfolio_outcome(calcs) ==
    IF first_raising(calcs) # 0 THEN calcs[first_raising(calcs)]
    ELSE portfolio_of(calcs)

calculate_portfolio_roi(bottleneck_list, company_metrics) ==
    portfolio_outcome(calculations_of(bottleneck_list, company_metrics))

\* What a portfolio call appends to self.calculations: one ROICalculation per
\* item, up to the item that raises.
appended_of(calcs) ==
    IF first_raising(calcs) # 0 THEN SubSeq(calcs, 1, first_raising(calcs) - 1)
    ELSE calcs

appended_by_portfolio(bottleneck_list, company_metrics) ==
    appended_of(calculations_of(bottleneck_list, company_metrics))

\* "Performance rating"
\* Variant: the two thresholds compared with >=.
performance_of_inclusive(difference_percentage) ==
    IF ~RLt(difference_percentage, R(20)) THEN "Above Average"
    ELSE IF ~RLt(difference_percentage, R(-20)) THEN "Average"
    ELSE "Below Average"

performance_of(difference_percentage) ==
    IF RGt(difference_percentage, R(20)) THEN "Above Average"
    ELSE IF RGt(difference_percentage, R(-20)) THEN "Average"
    ELSE "Below Average"

\* The comparison dict, from the benchmark entry and the company's figures.
comparison_of(benchmarks, employees, revenue_per_employee, difference_percentage) ==
    [revenue_per_employee |->
        [company |-> revenue_per_employee,
         industry_average |-> benchmarks.revenue_per_employee,
         difference_percentage |-> difference_percentage],
     estimated_billable_percentage |-> benchmarks.billable_hours_percentage,
     estimated_overhead_percentage |-> benchmarks.admin_overhead_percentage,
     industry_hourly_rate |-> benchmarks.typical_hourly_rate,
     performance_rating |-> performance_of(difference_percentage),
     improvement_potential |->
        IF performance_of(difference_percentage) = "Below Average"
        THEN RMul(RSub(benchmarks.revenue_per_employee, revenue_per_employee),
                  employees)
        ELSE Zero,
     improvement_message |->
        IF performance_of(difference_percentage) = "Below Average"
        THEN <<"Reaching industry average could add",
               RoundHalfEven(RMul(RSub(benchmarks.revenue_per_employee,
                                       revenue_per_employee), employees))>>
        ELSE <<"Already performing at or above industry average">>]

difference_percentage_of(benchmarks, revenue_per_employee) ==
    IF RGt(benchmarks.revenue_per_employee, Zero)
    THEN RMul(RDiv(RSub(revenue_per_employee, benchmarks.revenue_per_employee),
                   benchmarks.revenue_per_employee), R(100))
    ELSE Zero

comparison_for(benchmarks, employees, revenue_per_employee) ==
    comparison_of(benchmarks, employees, revenue_per_employee,
                  difference_percentage_of(benchmarks, revenue_per_employee))

\* revenue / employees if employees > 0 else 0
revenue_per_employee_of(revenue, employees) ==
    IF RGt(employees, Zero) THEN RDiv(revenue, employees) ELSE Zero

benchmark_against_industry(company_metrics) ==
    comparison_for(benchmarks_for(company_metrics),
                   Get(company_metrics, "employee_count", R(1)),
                   revenue_per_employee_of(
                       Get(company_metrics, "annual_revenue", Zero),
                       Get(company_metrics, "employee_count", R(1))))

\* The message of _generate_executive_recommendation: its tier, the figures it
\* prints ({roi:.0f}, and {payback:.1f} in tenths) and the appended sentence.
\* Variant: the strong tier from an ROI of 200 on.
recommendation_of_from_200(roi, payback, benchmark) ==
    [tier |->
        IF ~RLt(roi, R(200)) /\ RLt(payback, R(6)) THEN "STRONGLY RECOMMENDED"
        ELSE IF RGt(roi, R(100)) /\ RLt(payback, R(12)) THEN "RECOMMENDED"
        ELSE "WORTH CONSIDERING",
     figures |->
        IF (~RLt(roi, R(200)) /\ RLt(payback, R(6)))
           \/ (RGt(roi, R(100)) /\ RLt(payback, R(12)))
        THEN <<RoundHalfEven(roi), RoundHalfEven(RMul(payback, R(10)))>>
        ELSE <<>>,
     additionally |->
        IF benchmark.performance_rating = "Below Average"
        THEN <<RoundHalfEven(benchmark.improvement_potential)>> ELSE <<>>]

recommendation_of(roi, payback, benchmark) ==
    [tier |->
        IF RGt(roi, R(200)) /\ RLt(payback, R(6)) THEN "STRONGLY RECOMMENDED"
        ELSE IF RGt(roi, R(100)) /\ RLt(payback, R(12)) THEN "RECOMMENDED"
        ELSE "WORTH CONSIDERING",
     figures |->
        IF (RGt(roi, R(200)) /\ RLt(payback, R(6)))
           \/ (RGt(roi, R(100)) /\ RLt(payback, R(12)))
        THEN <<RoundHalfEven(roi), RoundHalfEven(RMul(payback, R(10)))>>
        ELSE <<>>,
     additionally |->
        IF benchmark.performance_rating = "Below Average"
        THEN <<RoundHalfEven(benchmark.improvement_potential)>> ELSE <<>>]

_generate_executive_recommendation(portfolio, benchmark, company_metrics) ==
    recommendation_of(portfolio.portfolio_summary.portfolio_roi_percentage,
                      portfolio.portfolio_summary.portfolio_payback_months,
                      benchmark)

\* sum(b.get(key, 0) for b in bottlenecks)
sum_of(bottleneck_list, key) ==
    RSum(AsSeq([k \in 1..Len(bottleneck_list) |-> Get(bottleneck_list[k], key, Zero)]))

\* The summary dict, from the portfolio and the benchmark already computed.
summary_of(company_metrics, bottleneck_list, portfolio, benchmark) ==
    [company_snapshot |->
        [name |-> Get(company_metrics, "company_name", "Company"),
         employees |-> Get(company_metrics, "employee_count", Zero),
         annual_revenue |-> Get(company_metrics, "annual_revenue", Zero),
         industry |-> Get(company_metrics, "industry", "Unknown")],
     key_findings |->
        [total_inefficiency_hours_annual |->
             sum_of(bottleneck_list, "annual_hours_impact"),
         total_inefficiency_cost_annual |->
             sum_of(bottleneck_list, "annual_cost_impact"),
         number_of_bottlenecks |-> Len(bottleneck_list),
         automation_opportunity |-> portfolio.portfolio_summary.total_annual_savings],
     roi_highlights |->
        [total_investment_required |->
             portfolio.portfolio_summary.total_implementation_cost,
         annual_savings_potential |->
             portfolio.portfolio_summary.total_annual_savings,
         roi_percentage |-> portfolio.portfolio_summary.portfolio_roi_percentage,
         payback_period_months |->
             portfolio.portfolio_summary.portfolio_payback_months],
     industry_comparison |-> benchmark,
     top_3_opportunities |-> Take(portfolio.individual_projects, 3),
     executive_recommendation |->
        _generate_executive_recommendation(portfolio, benchmark, company_metrics)]

\* generate_executive_summary once the portfolio is computed: the exception
\* of calculate_portfolio_roi propagates.
summary_outcome(company_metrics, bottleneck_list, portfolio) ==
    IF IsRaised(portfolio) THEN portfolio
    ELSE summary_of(company_metrics, bottleneck_list, portfolio,
                    benchmark_against_industry(company_metrics))

generate_executive_summary(company_metrics, bottleneck_list) ==
    summary_outcome(company_metrics, bottleneck_list,
                    calculate_portfolio_roi(bottleneck_list, company_metrics))

----------------------------------------------------------------------------
(* The two annualizers: core/business_doctor_engine.py and                 *)
(* core/data_pipeline.py                                                   *)

\* ProcessBottleneck.calculate_annual_impact: its table and its default.
frequency_multiplier == [daily |-> 250, weekly |-> 52, monthly |-> 12, quarterly |-> 4]

\* (annual_hours, annual_cost) of a ProcessBottleneck.
calculate_annual_impact(self) ==
    LET multiplier == Get(frequency_multiplier, Lower(self.frequency), 12)
    IN  << RMul(self.time_impact_hours, R(multiplier)),
           RMul(self.cost_impact, R(multiplier)) >>

\* DataProcessors.process_bottleneck: its own table and its defaults.
processor_frequency_multiplier ==
    [daily |-> 250, weekly |-> 52, monthly |-> 12, quarterly |-> 4]

\* Variant: the thresholds compared with >=.
default_priority_inclusive(annual_cost_impact) ==
    IF ~RLt(annual_cost_impact, R(100000)) THEN "critical"
    ELSE IF ~RLt(annual_cost_impact, R(50000)) THEN "high"
    ELSE IF ~RLt(annual_cost_impact, R(10000)) THEN "medium"
    ELSE "low"

\* "Set default priority based on impact"
default_priority(annual_cost_impact) ==
    IF RGt(annual_cost_impact, R(100000)) THEN "critical"
    ELSE IF RGt(annual_cost_impact, R(50000)) THEN "high"
    ELSE IF RGt(annual_cost_impact, R(10000)) THEN "medium"
    ELSE "low"

\* DataProcessors.generate_id: prefix, the first digits of the MD5 digest of
\* the data (one digest per data, collisions left out) and the clock's second.
generate_id(prefix, data, now) == <<prefix, data, now>>

\* record.data after process_bottleneck: the two annual entries are written
\* (also over existing ones), the priority only when the data has none.
processed_data(data, multiplier) ==
    ( "annual_hours_impact" :>
          RMul(Get(data, "time_impact_hours", Zero), R(multiplier))
      @@ "annual_cost_impact" :>
          RMul(Get(data, "cost_impact", Zero), R(multiplier))
      @@ (IF "priority" \in DOMAIN data THEN <<>>
          ELSE "priority" :>
                  default_priority(
                      RMul(Get(data, "cost_impact", Zero), R(multiplier)))) )
    @@ data

\* The record process_bottleneck returns; now is the clock read by generate_id.
process_bottleneck(rec, now) ==
    [id |-> IF rec.id = "" THEN generate_id("bottleneck", rec.data, now)
            ELSE rec.id,
     data |-> processed_data(
                  rec.data,
                  Get(processor_frequency_multiplier,
                      Get(rec.data, "frequency", "weekly"), 52))]

----------------------------------------------------------------------------
(* The pipeline and its bottlenecks table: core/data_pipeline.py           *)

\* A string that float() does not parse, as the value of a numeric entry.
NotANumber == [text |-> "a lot"]

\* float(value) returns: value is a number of any sign (float(None) raises
\* TypeError, float of such a string ValueError).
float_accepts(value) == DOMAIN value = {"n", "d"}

\* DataValidators.validate_bottleneck: the required fields are present and
\* float() accepts the two numeric ones.
validate_bottleneck(rec) ==
    /\ {"consultation_id", "name", "time_impact_hours", "cost_impact"}
           \subseteq DOMAIN rec.data
    /\ float_accepts(rec.data["time_impact_hours"])
    /\ float_accepts(rec.data["cost_impact"])

\* The row _store_bottleneck inserts: the ten columns of the INSERT, NULL
\* where data.get finds nothing, and created_at from the table's default.
\* The annual figures of the record are not among the columns.
_store_bottleneck(rec, now) ==
    [id |-> rec.id,
     consultation_id |-> Get(rec.data, "consultation_id", NoneStr),
     name |-> Get(rec.data, "name", NoneStr),
     description |-> Get(rec.data, "description", NoneStr),
     department |-> Get(rec.data, "department", NoneStr),
     frequency |-> Get(rec.data, "frequency", NoneStr),
     time_impact_hours |-> Get(rec.data, "time_impact_hours", NoneVal),
     cost_impact |-> Get(rec.data, "cost_impact", NoneVal),
     automation_potential |-> Get(rec.data, "automation_potential", NoneVal),
     priority |-> Get(rec.data, "priority", NoneStr),
     created_at |-> now]

\* _store_record for a bottleneck: the IntegrityError of the PRIMARY KEY
\* when a row has the record's id (raised), and the table after the call.
_store_record(table, rec, now) ==
    IF \E k \in 1..Len(table) : table[k].id = rec.id
    THEN [raised |-> "IntegrityError", table |-> table]
    ELSE [table |-> Append(table, _store_bottleneck(rec, now))]

\* Variant: the record is written before the validator is asked.
process_store_first(table, rec, now) ==
    IF ~validate_bottleneck(rec)
    THEN [returned |-> Raised("ValueError"), record |-> rec,
          table |-> _store_record(table, rec, now).table]
    ELSE [returned |-> process_bottleneck(rec, now),
          record |-> process_bottleneck(rec, now),
          table |-> _store_record(table, process_bottleneck(rec, now), now).table]

\* DataPipeline.process of a bottleneck record at clock now: what it returns
\* or raises, the record object after the call and the table after the call.
process(table, rec, now) ==
    IF ~validate_bottleneck(rec)
    THEN [returned |-> Raised("ValueError"), record |-> rec, table |-> table]
    ELSE IF IsRaised(_store_record(table, process_bottleneck(rec, now), now))
    THEN [returned |-> Raised("IntegrityError"),
          record |-> process_bottleneck(rec, now), table |-> table]
    ELSE [returned |-> process_bottleneck(rec, now),
          record |-> process_bottleneck(rec, now),
          table |-> _store_record(table, process_bottleneck(rec, now), now).table]

\* The rows of a consultation, in insertion order.
rows_of(table, consultation_id) ==
    SelectSeq(table, LAMBDA row : row.consultation_id = consultation_id)

\* DataPipeline.get_bottlenecks: the lists the SELECT can return, the rows of
\* the consultation as dicts of all columns, ORDER BY cost_impact DESC; SQL
\* leaves the order of rows with the same cost_impact open.
get_bottlenecks(table, consultation_id) ==
    LET rows == rows_of(table, consultation_id)
        n == Len(rows)
        orders == {p \in [1..n -> 1..n] :
                     /\ \A i, j \in 1..n : i # j => p[i] # p[j]
                     /\ \A i \in 1..(n - 1) :
                           ~RLt(rows[p[i]].cost_impact, rows[p[i + 1]].cost_impact)}
    IN  {AsSeq([i \in 1..n |-> rows[p[i]]]) : p \in orders}

----------------------------------------------------------------------------
(* The arguments the operations are applied to.                            *)

SmithLaw ==
    [company_name |-> "Smith Law Firm", employee_count |-> R(45),
     annual_revenue |-> R(8500000), industry |-> "Legal"]

\* A company that states its hourly cost.
Acme ==
    [company_name |-> "Acme", employee_count |-> R(20),
     annual_revenue |-> R(2000000), industry |-> "msp",
     average_hourly_cost |-> R(100)]

\* The metrics of a consultation in which nothing was extracted yet.
Unknown ==
    [company_name |-> "", employee_count |-> Zero,
     annual_revenue |-> Zero, industry |-> ""]

\* The spec's example: 20 hours and 3000 a week.
Intake ==
    [name |-> "Manual client intake", frequency |-> "weekly",
     time_impact_hours |-> R(20), cost_impact |-> R(3000),
     annual_hours_impact |-> R(1040), annual_cost_impact |-> R(156000),
     automation_potential |-> Rat(8, 10), solution_complexity |-> "medium"]

Invoices ==
    [name |-> "Invoice entry", frequency |-> "quarterly",
     time_impact_hours |-> R(100), cost_impact |-> R(7500),
     annual_hours_impact |-> R(400), annual_cost_impact |-> R(30000),
     automation_potential |-> Rat(1, 2), solution_complexity |-> "low"]

Reporting ==
    [name |-> "Reporting", frequency |-> "daily",
     time_impact_hours |-> R(6), cost_impact |-> R(450),
     annual_hours_impact |-> R(1500), annual_cost_impact |-> R(112500),
     automation_potential |-> Rat(1, 2), solution_complexity |-> "medium"]

Migration ==
    [name |-> "Data migration", frequency |-> "daily",
     time_impact_hours |-> R(16), cost_impact |-> R(1200),
     annual_hours_impact |-> R(4000), annual_cost_impact |-> R(300000),
     automation_potential |-> Rat(1, 2), solution_complexity |-> "high"]

\* A record with the per-occurrence fields only, as the engine creates it
\* from a challenge and as a stored row carries it.
Scheduling ==
    [name |-> "Challenge: scheduling takes all day", frequency |-> "daily",
     time_impact_hours |-> R(5), cost_impact |-> R(375),
     automation_potential |-> Rat(7, 10)]

Pool == {Intake, Invoices, Reporting, Migration, Scheduling}

\* A bottleneck whose savings stay below its implementation cost.
Upkeep ==
    [name |-> "Server upkeep", frequency |-> "monthly",
     time_impact_hours |-> R(20), cost_impact |-> R(1500),
     annual_hours_impact |-> R(240), annual_cost_impact |-> R(18000),
     automation_potential |-> Rat(1, 2), solution_complexity |-> "high"]

MaxShort == 4

\* Single bottlenecks over a grid of field values; Absent leaves the key out.
Absent == [absent |-> TRUE]
AbsentStr == "<absent>"

EntryNum(key, value) == IF value = Absent THEN <<>> ELSE key :> value
EntryStr(key, value) == IF value = AbsentStr THEN <<>> ELSE key :> value

GridComplexity == {AbsentStr, "low", "medium", "high", "extreme"}

GridBottlenecks ==
    { ("name" :> "Grid" @@ "frequency" :> "weekly"
        @@ "time_impact_hours" :> R(20) @@ "cost_impact" :> R(3000))
      @@ EntryNum("annual_hours_impact", h)
      @@ EntryNum("automation_potential", p)
      @@ EntryStr("solution_complexity", c)
      : h \in {Absent, Zero, R(400), R(1040)},
        p \in {Absent, Zero, Rat(1, 2), Rat(8, 10), R(1)}, c \in GridComplexity }

\* Lists longer than the top-10 cap: every item has its own name and the
\* figures of one of two kinds, the kinds repeating with a period.
MaxOver == 1

LongPeriod == 4

LongNames ==
    <<"b01", "b02", "b03", "b04", "b05", "b06", "b07", "b08", "b09", "b10",
      "b11", "b12", "b13", "b14">>

LongLists ==
    UNION { { [i \in 1..n |->
                 [kinds[((i - 1) % LongPeriod) + 1] EXCEPT !.name = LongNames[i]]]
              : kinds \in [1..LongPeriod -> {Invoices, Reporting}] }
            : n \in (TopN + 1)..(TopN + MaxOver) }

\* The argument pairs (bottlenecks, company_metrics) of a call: the lists of
\* up to MaxShort bottlenecks of the pool, the single grid bottlenecks and
\* Upkeep next to a bottleneck without annual hours, under each company, and
\* the long lists.
Arguments ==
    ( ( UNION {[1..n -> Pool] : n \in 0..MaxShort}
        \cup {<<b>> : b \in GridBottlenecks}
        \cup {<<Upkeep, Scheduling>>, <<Scheduling, Upkeep>>} )
      \X {SmithLaw, Acme, Unknown} )
    \cup (LongLists \X {Acme})

----------------------------------------------------------------------------
(* Spec: one operation of a new BusinessAnalyzer applied to the arguments. *)

NoResult == [none |-> TRUE]
NoCalls == <<>>
NoRecord == [none |-> TRUE]

Init ==
    /\ calculations = <<>>
    /\ \E a \in Arguments : bottlenecks = a[1] /\ company = a[2]
    /\ op = "none"
    /\ result = NoResult
    /\ calls = NoCalls
    /\ record = NoRecord
    /\ db_bottlenecks = <<>>
    /\ engine = <<>>
    /\ terminal_consultation_id = NoneStr
    /\ db_consultations = <<>>

\* calculate_bottleneck_roi(bottlenecks[0], company)
CalculateBottleneckRoi ==
    /\ op = "none"
    /\ bottlenecks # <<>>
    /\ LET roi_calc == calculate_bottleneck_roi(bottlenecks[1], company)
       IN  /\ result' = roi_calc
           /\ calculations' = IF IsRaised(roi_calc) THEN calculations
                              ELSE Append(calculations, roi_calc)
    /\ op' = "calculate_bottleneck_roi"
    /\ UNCHANGED <<bottlenecks, company, calls, record, db_bottlenecks,
                 engine, terminal_consultation_id, db_consultations>>

\* calculate_portfolio_roi(bottlenecks, company)
CalculatePortfolioRoi ==
    /\ op = "none"
    /\ result' = calculate_portfolio_roi(bottlenecks, company)
    /\ calculations' = calculations \o appended_by_portfolio(bottlenecks, company)
    /\ op' = "calculate_portfolio_roi"
    /\ UNCHANGED <<bottlenecks, company, calls, record, db_bottlenecks,
                 engine, terminal_consultation_id, db_consultations>>

\* benchmark_against_industry(company)
BenchmarkAgainstIndustry ==
    /\ op = "none"
    /\ result' = benchmark_against_industry(company)
    /\ op' = "benchmark_against_industry"
    /\ UNCHANGED <<calculations, bottlenecks, company, calls, record, db_bottlenecks,
                 engine, terminal_consultation_id, db_consultations>>

\* generate_executive_summary(company, bottlenecks)
GenerateExecutiveSummary ==
    /\ op = "none"
    /\ result' = generate_executive_summary(company, bottlenecks)
    /\ calculations' = calculations \o appended_by_portfolio(bottlenecks, company)
    /\ op' = "generate_executive_summary"
    /\ UNCHANGED <<bottlenecks, company, calls, record, db_bottlenecks,
                 engine, terminal_consultation_id, db_consultations>>

Next ==
    \/ CalculateBottleneckRoi
    \/ CalculatePortfolioRoi
    \/ BenchmarkAgainstIndustry
    \/ GenerateExecutiveSummary

Spec == Init /\ [][Next]_vars

----------------------------------------------------------------------------
(* SpecAnnualize: one of the two annualizers applied to a bottleneck.      *)

MaxClock == 2

\* The data of the record: AbsentStr leaves the key out.  With the daily
\* multiplier the costs 40, 200 and 400 give annual costs of exactly 10,000,
\* 50,000 and 100,000.
BottleneckData ==
    { ("name" :> "Manual client intake"
         @@ "time_impact_hours" :> h @@ "cost_impact" :> c)
      @@ EntryStr("frequency", f) @@ EntryStr("priority", q)
      : f \in {AbsentStr, "", "daily", "weekly", "monthly", "quarterly", "yearly",
               "Weekly"},
        h \in {Zero, R(5), R(20)}, c \in {R(40), R(200), R(400), R(3000)},
        q \in {AbsentStr, "high"} }

InitAnnualize ==
    /\ calculations = <<>>
    /\ bottlenecks = <<>>
    /\ company = Unknown
    /\ op = "none"
    /\ result = NoResult
    /\ calls = NoCalls
    /\ \E i \in {"", "bottleneck_1"}, d \in BottleneckData :
          record = [id |-> i, data |-> d]
    /\ db_bottlenecks = <<>>
    /\ engine = <<>>
    /\ terminal_consultation_id = NoneStr
    /\ db_consultations = <<>>

\* ProcessBottleneck(...).calculate_annual_impact() on the fields of the data;
\* the dataclass has no default for frequency, so the data carries one.
CalculateAnnualImpact ==
    /\ op = "none"
    /\ "frequency" \in DOMAIN record.data
    /\ result' = calculate_annual_impact(record.data)
    /\ op' = "calculate_annual_impact"
    /\ UNCHANGED <<calculations, bottlenecks, company, calls, record, db_bottlenecks,
                 engine, terminal_consultation_id, db_consultations>>

\* DataProcessors.process_bottleneck(record): the record is changed in place
\* and returned.
ProcessBottleneckRecord ==
    /\ op = "none"
    /\ \E now \in 1..MaxClock :
          /\ record' = process_bottleneck(record, now)
          /\ result' = process_bottleneck(record, now)
    /\ op' = "process_bottleneck"
    /\ UNCHANGED <<calculations, bottlenecks, company, calls, db_bottlenecks,
                 engine, terminal_consultation_id, db_consultations>>

NextAnnualize ==
    \/ CalculateAnnualImpact
    \/ ProcessBottleneckRecord

SpecAnnualize == InitAnnualize /\ [][NextAnnualize]_vars

----------------------------------------------------------------------------
(* SpecCalls: callers sharing one BusinessAnalyzer.  A call of             *)
(* calculate_portfolio_roi or generate_executive_summary takes one step    *)
(* per bottleneck (calculate_bottleneck_roi with its append to             *)
(* self.calculations) and a last step that builds what it returns; the     *)
(* steps of different callers interleave.                                  *)

Callers == {"a", "b"}

MaxItems == 2


\* A call that has not taken a step: its local portfolio_calculations is [].
NewCalls ==
    [operation : {"calculate_portfolio_roi", "generate_executive_summary"},
     bottleneck_list : UNION {[1..n -> {Reporting, Scheduling}] : n \in 0..MaxItems},
     company_metrics : {Acme}, portfolio_calculations : {<<>>},
     pc : {"loop"}, result : {NoResult}]

InitCalls ==
    /\ calculations = <<>>
    /\ bottlenecks = <<>>
    /\ company = Unknown
    /\ op = "none"
    /\ result = NoResult
    /\ calls \in [Callers -> NewCalls]
    /\ record = NoRecord
    /\ db_bottlenecks = <<>>
    /\ engine = <<>>
    /\ terminal_consultation_id = NoneStr
    /\ db_consultations = <<>>

\* Variant: the call's list is the analyzer's own list.
collected_in_shared(portfolio_calculations, self_calculations, roi_calc) ==
    self_calculations

\* portfolio_calculations.append(roi_calc): the call's own list after an item;
\* self_calculations, the analyzer's list after the item's append, is not read.
collected(portfolio_calculations, self_calculations, roi_calc) ==
    Append(portfolio_calculations, roi_calc)

\* The call after the loop body ran for its next item.
after_item(call, self_calculations, roi_calc) ==
    IF IsRaised(roi_calc)
    THEN [call EXCEPT !.pc = "done", !.result = roi_calc]
    ELSE [call EXCEPT !.portfolio_calculations =
             collected(call.portfolio_calculations,
                       Append(self_calculations, roi_calc), roi_calc)]

\* What the call returns once its loop is over.
returned_by(call) ==
    IF call.operation = "calculate_portfolio_roi"
    THEN portfolio_outcome(call.portfolio_calculations)
    ELSE summary_outcome(call.company_metrics, call.bottleneck_list,
                         portfolio_outcome(call.portfolio_calculations))

next_item(call) == call.bottleneck_list[Len(call.portfolio_calculations) + 1]

\* One iteration of "for bottleneck in bottlenecks" of caller c.
RoiStep(c) ==
    /\ calls[c].pc = "loop"
    /\ Len(calls[c].portfolio_calculations) < Len(calls[c].bottleneck_list)
    /\ LET roi_calc == calculate_bottleneck_roi(next_item(calls[c]),
                                                calls[c].company_metrics)
       IN  /\ calculations' = IF IsRaised(roi_calc) THEN calculations
                              ELSE Append(calculations, roi_calc)
           /\ calls' = [calls EXCEPT ![c] = after_item(calls[c], calculations, roi_calc)]
    /\ UNCHANGED <<bottlenecks, company, op, result, record, db_bottlenecks,
                 engine, terminal_consultation_id, db_consultations>>

\* The rest of the call of caller c, after the loop: it works on the call's
\* own list.
FinishCall(c) ==
    /\ calls[c].pc = "loop"
    /\ Len(calls[c].portfolio_calculations) = Len(calls[c].bottleneck_list)
    /\ calls' = [calls EXCEPT ![c].pc = "done", ![c].result = returned_by(calls[c])]
    /\ UNCHANGED <<calculations, bottlenecks, company, op, result, record, db_bottlenecks,
                 engine, terminal_consultation_id, db_consultations>>

NextCalls ==
    \/ \E c \in Callers : RoiStep(c)
    \/ \E c \in Callers : FinishCall(c)

SpecCalls == InitCalls /\ [][NextCalls]_vars

----------------------------------------------------------------------------
(* SpecItem: calculate_bottleneck_roi or benchmark_against_industry        *)
(* applied to one bottleneck and a company, both drawn from grids of       *)
(* field values.                                                           *)

\* Company metrics as the engine holds them: employee_count and
\* annual_revenue are always there, 0 while unknown.  With 45 employees the
\* revenues 7,200,000, 9,000,000 and 10,800,000 are 20% below, at and 20%
\* above the legal benchmark of 200,000 per employee.
ItemCompanies ==
    { ("company_name" :> "Smith Law Firm" @@ "employee_count" :> e
         @@ "annual_revenue" :> r)
      @@ EntryNum("average_hourly_cost", o) @@ EntryStr("industry", i)
      : o \in {Absent, R(100)},
        r \in {Zero, R(7200000), R(8500000), R(9000000), R(10800000)},
        e \in {Zero, R(45)},
        i \in {AbsentStr, "", "Legal", "legal", "plumbing"} }

\* The spec's example bottleneck over its fields; a None automation_potential
\* is what a stored row without one carries.
ItemBottlenecks ==
    { ("name" :> "Manual client intake" @@ "annual_hours_impact" :> R(1040)
         @@ "cost_impact" :> c)
      @@ EntryNum("time_impact_hours", h) @@ EntryStr("frequency", f)
      @@ EntryNum("automation_potential", p)
      @@ EntryStr("solution_complexity", x)
      : h \in {Absent, Zero, R(20)}, c \in {Zero, R(3000)},
        f \in {AbsentStr, "", "weekly"},
        p \in {Absent, NoneVal, Rat(8, 10)}, x \in GridComplexity }

InitItem ==
    /\ calculations = <<>>
    /\ \E b \in ItemBottlenecks : bottlenecks = <<b>>
    /\ company \in ItemCompanies
    /\ op = "none"
    /\ result = NoResult
    /\ calls = NoCalls
    /\ record = NoRecord
    /\ db_bottlenecks = <<>>
    /\ engine = <<>>
    /\ terminal_consultation_id = NoneStr
    /\ db_consultations = <<>>

NextItem ==
    \/ CalculateBottleneckRoi
    \/ BenchmarkAgainstIndustry

SpecItem == InitItem /\ [][NextItem]_vars

----------------------------------------------------------------------------
(* SpecReport: the report flow of the terminal application.  Bottleneck    *)
(* records go through pipeline.process into the bottlenecks table, and     *)
(* generate_report reads the rows back with get_bottlenecks and hands them *)
(* to generate_executive_summary.                                          *)

ConsultationId == "consult_1"

MaxRows == 2

\* The data of the records given to the pipeline: the spec's example over
\* frequency and automation_potential, a cheaper bottleneck, a bottleneck of
\* another consultation, one without its cost_impact, one whose cost_impact
\* is not a number and one with negative figures.
ReportData ==
    { ("consultation_id" :> ConsultationId @@ "name" :> "Manual client intake"
         @@ "time_impact_hours" :> R(20) @@ "cost_impact" :> R(3000))
      @@ EntryStr("frequency", f) @@ EntryNum("automation_potential", p)
      : f \in {AbsentStr, "daily"}, p \in {Absent, Rat(7, 10)} }
    \cup { "consultation_id" :> ConsultationId @@ "name" :> "Reporting"
             @@ "frequency" :> "daily" @@ "time_impact_hours" :> R(6)
             @@ "cost_impact" :> R(450) @@ "automation_potential" :> Rat(1, 2),
           "consultation_id" :> "consult_2" @@ "name" :> "Reporting"
             @@ "frequency" :> "weekly" @@ "time_impact_hours" :> R(6)
             @@ "cost_impact" :> R(450) @@ "automation_potential" :> Rat(1, 2),
           "consultation_id" :> ConsultationId @@ "name" :> "Unpriced"
             @@ "time_impact_hours" :> R(6),
           "consultation_id" :> ConsultationId @@ "name" :> "Vague"
             @@ "time_impact_hours" :> R(6) @@ "cost_impact" :> NotANumber,
           "consultation_id" :> ConsultationId @@ "name" :> "Negative"
             @@ "frequency" :> "daily" @@ "time_impact_hours" :> R(-5)
             @@ "cost_impact" :> R(-375) @@ "automation_potential" :> Rat(7, 10) }

InitReport ==
    /\ calculations = <<>>
    /\ bottlenecks = <<>>
    /\ company \in {SmithLaw, Unknown}
    /\ op = "none"
    /\ result = NoResult
    /\ calls = NoCalls
    /\ record = NoRecord
    /\ db_bottlenecks = <<>>
    /\ engine = <<>>
    /\ terminal_consultation_id = NoneStr
    /\ db_consultations = <<>>

\* pipeline.process(DataRecord(id="", record_type="bottleneck", data=data))
PipelineProcess ==
    /\ op # "generate_report"
    /\ Len(db_bottlenecks) < MaxRows
    /\ \E data \in ReportData, now \in 1..MaxClock :
          /\ result' = process(db_bottlenecks, [id |-> "", data |-> data], now).returned
          /\ record' = process(db_bottlenecks, [id |-> "", data |-> data], now).record
          /\ db_bottlenecks' =
                 process(db_bottlenecks, [id |-> "", data |-> data], now).table
    /\ op' = "process"
    /\ UNCHANGED <<calculations, bottlenecks, company, calls,
                 engine, terminal_consultation_id, db_consultations>>

\* generate_report: bottlenecks = pipeline.get_bottlenecks(consultation_id),
\* then analyzer.generate_executive_summary(company_metrics, bottlenecks).
GenerateReport ==
    /\ op # "generate_report"
    /\ \E rows \in get_bottlenecks(db_bottlenecks, ConsultationId) :
          /\ bottlenecks' = rows
          /\ result' = generate_executive_summary(company, rows)
          /\ calculations' = calculations \o appended_by_portfolio(rows, company)
    /\ op' = "generate_report"
    /\ UNCHANGED <<company, calls, record, db_bottlenecks,
                 engine, terminal_consultation_id, db_consultations>>

NextReport ==
    \/ PipelineProcess
    \/ GenerateReport

SpecReport == InitReport /\ [][NextReport]_vars

----------------------------------------------------------------------------
(* Properties of one operation applied to the arguments (Spec).            *)

Returned(name) == op = name /\ ~IsRaised(result)

\* The calculations of the items of the call, in input order.
ItemCalcs == calculations_of(bottlenecks, company)

\* C1: calculate_portfolio on a non-empty list whose total annual savings is 0
\* while the total implementation cost is positive returns portfolio ROI 0 and
\* portfolio payback +infinity, and raises no division-by-zero error.
C1_ZeroSavingsCase ==
    /\ bottlenecks # <<>>
    /\ first_raising(ItemCalcs) = 0
    /\ RSum(Field(ItemCalcs, "annual_savings")) = Zero
    /\ RGt(RSum(Field(ItemCalcs, "implementation_cost")), Zero)

C1_ZeroSavingsPortfolio ==
    (op = "calculate_portfolio_roi" /\ C1_ZeroSavingsCase) =>
        /\ ~IsRaised(result)
        /\ result.portfolio_summary.portfolio_roi_percentage = Zero
        /\ result.portfolio_summary.portfolio_payback_months = Inf

\* C2: calculate_roi gives, when annual_savings > 0, roi_percentage =
\* (annual_savings - implementation_cost) / implementation_cost x 100 and
\* payback_period_months = implementation_cost / annual_savings x 12, and when
\* annual_savings <= 0, roi_percentage 0 and payback_period_months +infinity.
C2_RoiAndPayback ==
    Returned("calculate_bottleneck_roi") =>
        IF RGt(result.annual_savings, Zero)
        THEN /\ RMul(result.roi_percentage, result.implementation_cost)
                    = RMul(RSub(result.annual_savings, result.implementation_cost),
                           R(100))
             /\ RMul(result.payback_period_months, result.annual_savings)
                    = RMul(result.implementation_cost, R(12))
        ELSE /\ result.roi_percentage = Zero
             /\ result.payback_period_months = Inf

\* A bottleneck with hours to save and automation_potential 0, whatever the
\* implementation cost: no savings.
C2_Witness ==
    /\ Returned("calculate_bottleneck_roi")
    /\ Get(bottlenecks[1], "automation_potential", Absent) = Zero
    /\ RGt(result.current_cost, Zero)
    /\ result.annual_savings = Zero
    /\ result.payback_period_months = Inf

\* The occurrences per year of a frequency (daily 250, weekly 52, monthly 12,
\* quarterly 4, anything else 12).
OccurrencesPerYear(frequency) ==
    CASE frequency = "daily" -> 250
      [] frequency = "weekly" -> 52
      [] frequency = "monthly" -> 12
      [] frequency = "quarterly" -> 4
      [] OTHER -> 12

\* C4: calculate_roi's current_cost equals time_impact_hours x
\* occurrences_per_year(frequency) x hourly_cost for every bottleneck, also for
\* a record with no annual_hours_impact entry or a stale one.
C4_CurrentCostRecomputed ==
    Returned("calculate_bottleneck_roi") =>
        result.current_cost =
            RMul(RMul(bottlenecks[1].time_impact_hours,
                      R(OccurrencesPerYear(bottlenecks[1].frequency))),
                 _get_hourly_cost(company))


\* The sequence s with x put after every entry whose roi_percentage is not
\* lower than x's.
RECURSIVE InsertByRoi(_, _)
InsertByRoi(s, x) ==
    IF s = <<>> THEN <<x>>
    ELSE IF RGt(x.roi_percentage, Head(s).roi_percentage) THEN <<x>> \o s
    ELSE <<Head(s)>> \o InsertByRoi(Tail(s), x)

\* The calculations ranked by roi_percentage descending, equal ones in the
\* order of their bottlenecks: insertion of the items one by one in input order.
RECURSIVE RankedByRoi(_)
RankedByRoi(calcs) ==
    IF calcs = <<>> THEN <<>>
    ELSE InsertByRoi(RankedByRoi(SubSeq(calcs, 1, Len(calcs) - 1)),
                     calcs[Len(calcs)])

Min(a, b) == IF a < b THEN a ELSE b

SameProject(project, calc) ==
    /\ project.description = calc.description
    /\ project.annual_savings = calc.annual_savings
    /\ project.roi_percentage = calc.roi_percentage
    /\ project.payback_months = calc.payback_period_months
    /\ project.confidence = calc.confidence_level

ListsTheFirst(projects, ranked) ==
    /\ Len(projects) = Min(Len(ranked), 10)
    /\ \A k \in 1..Len(projects) : SameProject(projects[k], ranked[k])
    /\ Len(ranked) >= 11 =>
          /\ Len(projects) = 10
          /\ \A k \in 1..10 : \A m \in 11..Len(ranked) :
                ~RGt(ranked[m].roi_percentage, projects[k].roi_percentage)

\* C7: individual_projects is the first min(n, 10) entries of the calculations
\* sorted by roi_percentage descending with equal ones in input order; with 11
\* or more bottlenecks it has exactly 10 entries and no omitted entry has a
\* higher roi_percentage than a listed one.
C7_TopTenByRoi ==
    Returned("calculate_portfolio_roi") =>
        ListsTheFirst(result.individual_projects, RankedByRoi(ItemCalcs))

\* Eleven or more bottlenecks that are not given in ROI order and of which
\* one with the ROI of a listed project is omitted.
C7_Witness ==
    /\ Returned("calculate_portfolio_roi")
    /\ Len(bottlenecks) >= 11
    /\ Len(result.individual_projects) = 10
    /\ \E i, j \in 1..Len(bottlenecks) :
          i < j /\ RLt(ItemCalcs[i].roi_percentage, ItemCalcs[j].roi_percentage)
    /\ \E m \in 1..Len(bottlenecks) :
          /\ \A k \in 1..10 :
                result.individual_projects[k].description # ItemCalcs[m].description
          /\ ItemCalcs[m].roi_percentage = result.individual_projects[10].roi_percentage

\* The code's phase order of the items of the call.
PhaseOrder == sorted_calcs_of(sort_by_roi(ItemCalcs))

\* The k lowest members of a set of positions.
FirstOf(positions, k) ==
    {i \in positions : Cardinality({j \in positions : j < i}) < k}

\* The positions (in phase order) each phase takes, an item being identified
\* by its position and not by its figures.
Phase1Positions(order) ==
    FirstOf({i \in 1..Len(order) :
                order[i].time_to_implement_days <= 30
                /\ RGt(order[i].roi_percentage, R(50))}, 3)

Phase2Positions(order) ==
    FirstOf({i \in 1..Len(order) \ Phase1Positions(order) :
                order[i].time_to_implement_days <= 90}, 3)

Phase3Positions(order) ==
    FirstOf((1..Len(order) \ Phase1Positions(order)) \ Phase2Positions(order), 3)

\* The descriptions at a set of positions, in ascending position.
RECURSIVE DescriptionsAt(_, _)
DescriptionsAt(order, positions) ==
    IF positions = {} THEN <<>>
    ELSE LET first == CHOOSE i \in positions : \A j \in positions : i <= j
         IN  <<order[first].description>>
                 \o DescriptionsAt(order, positions \ {first})

\* The projects the returned plan lists for a phase, none when the plan has
\* no entry for it.
ProjectsOfPhase(phases, number) ==
    IF \E k \in 1..Len(phases) : phases[k].phase = number
    THEN phases[CHOOSE k \in 1..Len(phases) : phases[k].phase = number].projects
    ELSE <<>>

\* C8: phase 1 is the first 3 items (in phase order) with days <= 30 and
\* roi > 50, phase 2 the first 3 with days <= 90 among the items not placed in
\* phase 1, phase 3 the first 3 among those placed in neither; an item is left
\* out of a later phase only if that item itself was placed earlier, also when
\* several bottlenecks have the same name and figures.
C8_PhaseMembership ==
    Returned("calculate_portfolio_roi") =>
        /\ ProjectsOfPhase(result.implementation_phases, 1)
              = DescriptionsAt(PhaseOrder, Phase1Positions(PhaseOrder))
        /\ ProjectsOfPhase(result.implementation_phases, 2)
              = DescriptionsAt(PhaseOrder, Phase2Positions(PhaseOrder))
        /\ ProjectsOfPhase(result.implementation_phases, 3)
              = DescriptionsAt(PhaseOrder, Phase3Positions(PhaseOrder))

\* C9: the phase plan orders the items by roi_percentage /
\* max(time_to_implement_days, 1) descending, items with an equal ratio in the
\* order of their bottlenecks in the list passed to the call, also when their
\* roi_percentage differs; each phase lists its projects in that order.
C9_PhaseOrderKeepsInputOrder ==
    Returned("calculate_portfolio_roi") =>
        result.implementation_phases
            = phases_of(sorted_calcs_of(ItemCalcs))

\* The summary against the calculations of all the items of the call.
SummaryOver(summary, calcs) ==
    /\ summary.total_current_cost = RSum(Field(calcs, "current_cost"))
    /\ summary.total_improved_cost = RSum(Field(calcs, "improved_cost"))
    /\ summary.total_implementation_cost = RSum(Field(calcs, "implementation_cost"))
    /\ summary.total_annual_savings = RSum(Field(calcs, "annual_savings"))
    /\ summary.number_of_improvements = Len(calcs)
    /\ RGt(summary.total_annual_savings, Zero) =>
          /\ RMul(summary.portfolio_roi_percentage, summary.total_implementation_cost)
                = RMul(RSub(summary.total_annual_savings,
                            summary.total_implementation_cost), R(100))
          /\ RMul(summary.portfolio_payback_months, summary.total_annual_savings)
                = RMul(summary.total_implementation_cost, R(12))

\* C10: the summary is computed over every input bottleneck: the four totals
\* are the sums over all items, number_of_improvements is the input count, and
\* with total annual savings > 0 the portfolio ROI is (savings - cost) / cost
\* x 100 and the payback is cost / savings x 12 of the totals.
C10_SummaryOverAllItems ==
    Returned("calculate_portfolio_roi") =>
        SummaryOver(result.portfolio_summary, ItemCalcs)

\* More bottlenecks than the project list shows, with savings.
C10_Witness ==
    /\ Returned("calculate_portfolio_roi")
    /\ Len(bottlenecks) > Len(result.individual_projects)
    /\ result.portfolio_summary.number_of_improvements = Len(bottlenecks)
    /\ RGt(result.portfolio_summary.total_annual_savings, Zero)
    /\ RGt(result.portfolio_summary.portfolio_roi_percentage, Zero)

\* The positions of the quick wins and of the high-impact items in calcs.
QuickWinsIn(calcs) ==
    {i \in 1..Len(calcs) : /\ calcs[i].roi_percentage.n > 100 * calcs[i].roi_percentage.d
                           /\ calcs[i].time_to_implement_days <= 30}

HighImpactIn(calcs) ==
    {i \in 1..Len(calcs) : calcs[i].annual_savings.n > 50000 * calcs[i].annual_savings.d}

\* The annual savings of the items of calcs at the positions, summed and
\* shown without decimals.
SavingsAt(calcs, positions) ==
    RoundHalfEven(RSum(AsSeq([k \in 1..Len(calcs) |->
        IF k \in positions THEN calcs[k].annual_savings ELSE Zero])))

\* The rules of the recommendations, in order.
RulesOf(recommendations) == Field(recommendations, "rule")

\* The recommendation of a rule, when there is one.
EntryOfRule(recommendations, rule) ==
    recommendations[CHOOSE k \in 1..Len(recommendations) :
                        recommendations[k].rule = rule]

\* recs is what the three rules give for all the items of calcs.
RecommendationsOver(recs, calcs) ==
    /\ RulesOf(recs) =
          (IF QuickWinsIn(calcs) # {} THEN <<"quick wins">> ELSE <<>>)
          \o (IF HighImpactIn(calcs) # {} THEN <<"high-impact projects">> ELSE <<>>)
          \o (IF Len(calcs) > 5 THEN <<"phases">> ELSE <<>>)
    /\ QuickWinsIn(calcs) # {} =>
          /\ EntryOfRule(recs, "quick wins").count = Cardinality(QuickWinsIn(calcs))
          /\ EntryOfRule(recs, "quick wins").savings =
                SavingsAt(calcs, QuickWinsIn(calcs))
    /\ HighImpactIn(calcs) # {} =>
          /\ EntryOfRule(recs, "high-impact projects").count =
                Cardinality(HighImpactIn(calcs))
          /\ EntryOfRule(recs, "high-impact projects").savings =
                SavingsAt(calcs, HighImpactIn(calcs))

\* C18: the recommendations of calculate_portfolio_roi are, in this order, a
\* quick-wins entry exactly when some item has ROI above 100 and at most 30
\* days, a high-impact entry exactly when some item saves more than 50,000 a
\* year, and a phased-rollout entry exactly when there are more than 5 items;
\* the counts and savings in the entries are over all items, not only the
\* ten listed ones.
C18_Recommendations ==
    Returned("calculate_portfolio_roi") =>
        RecommendationsOver(result.recommendations, ItemCalcs)

\* Eleven items that all save more than 50,000: the entry counts all eleven.
C18_Witness ==
    /\ Returned("calculate_portfolio_roi")
    /\ Len(bottlenecks) > TopN
    /\ Len(result.individual_projects) = TopN
    /\ RulesOf(result.recommendations) = <<"high-impact projects", "phases">>
    /\ result.recommendations[1].count = Len(bottlenecks)

\* The duration label of a phase number.
DurationLabel(number) ==
    CASE number = 1 -> "0-30 days"
      [] number = 2 -> "31-90 days"
      [] number = 3 -> "91-180 days"

\* The calculation of the item with the description (the items of a call
\* that share a description share their figures).
CalcDescribed(calcs, description) ==
    calcs[CHOOSE i \in 1..Len(calcs) : calcs[i].description = description]

\* The sum of a field over the calculations of the projects of a phase.
SumOverProjects(calcs, projects, field) ==
    RSum(AsSeq([k \in 1..Len(projects) |->
        CalcDescribed(calcs, projects[k])[field]]))

\* phases is a well-formed phase list over the items of calcs.
WellFormedPhases(phases, calcs) ==
    /\ \A k \in 1..Len(phases) :
          /\ phases[k].phase \in 1..3
          /\ phases[k].duration = DurationLabel(phases[k].phase)
          /\ Len(phases[k].projects) \in 1..3
          /\ phases[k].investment =
                SumOverProjects(calcs, phases[k].projects, "implementation_cost")
          /\ phases[k].expected_savings =
                SumOverProjects(calcs, phases[k].projects, "annual_savings")
    /\ \A k \in 1..(Len(phases) - 1) : phases[k].phase < phases[k + 1].phase

\* C19: implementation_phases has no empty phase; each phase keeps its fixed
\* number and duration label (1: 0-30 days, 2: 31-90 days, 3: 91-180 days),
\* the numbers increase along the list, a phase has 1 to 3 projects, and its
\* investment and expected_savings are the sums over exactly its projects.
C19_PhasesWellFormed ==
    Returned("calculate_portfolio_roi") =>
        WellFormedPhases(result.implementation_phases, ItemCalcs)

\* Phase 1 is left out (no item qualifies), phase 2 is full and phase 3 takes
\* the rest.
C19_Witness ==
    /\ Returned("calculate_portfolio_roi")
    /\ Len(result.implementation_phases) = 2
    /\ result.implementation_phases[1].phase = 2
    /\ Len(result.implementation_phases[1].projects) = 3
    /\ result.implementation_phases[2].phase = 3

\* The tier of a portfolio ROI (percent) and payback (months).
TierOf(roi, payback) ==
    CASE roi.n > 200 * roi.d /\ payback.n < 6 * payback.d -> "STRONGLY RECOMMENDED"
      [] ~(roi.n > 200 * roi.d /\ payback.n < 6 * payback.d)
           /\ roi.n > 100 * roi.d /\ payback.n < 12 * payback.d -> "RECOMMENDED"
      [] OTHER -> "WORTH CONSIDERING"

\* C22: the executive recommendation's tier follows from the portfolio ROI
\* and payback alone: strongly recommended iff ROI > 200 and payback < 6
\* months, otherwise recommended iff ROI > 100 and payback < 12, otherwise
\* worth considering (so for an empty portfolio, ROI 0 and payback 0); the
\* improvement-potential sentence is appended iff the benchmark rating is
\* Below Average.
C22_RecommendationTier ==
    Returned("generate_executive_summary") =>
        /\ result.executive_recommendation.tier =
              TierOf(result.roi_highlights.roi_percentage,
                     result.roi_highlights.payback_period_months)
        /\ TierOf(Zero, Zero) = "WORTH CONSIDERING"
        /\ bottlenecks = <<>> =>
              result.executive_recommendation.tier = "WORTH CONSIDERING"
        /\ result.executive_recommendation.additionally # <<>>
              <=> result.industry_comparison.performance_rating = "Below Average"

\* A portfolio ROI of exactly 200 is recommended, not strongly recommended,
\* and the company is below its industry's average.
C22_Witness ==
    /\ Returned("generate_executive_summary")
    /\ result.roi_highlights.roi_percentage = R(200)
    /\ result.executive_recommendation.tier = "RECOMMENDED"
    /\ result.executive_recommendation.additionally # <<>>

----------------------------------------------------------------------------
(* Properties of the annualizers (SpecAnnualize).                          *)

\* The frequency the annualizer was given, AbsentStr when the data has none.
GivenFrequency == Get(record.data, "frequency", AbsentStr)

\* The (hours, cost) pair the annualizer produced.
Annualized ==
    IF op = "calculate_annual_impact" THEN result
    ELSE <<result.data.annual_hours_impact, result.data.annual_cost_impact>>

\* C3: both annualizers multiply time_impact_hours and cost_impact by 250, 52,
\* 12 and 4 for daily, weekly, monthly and quarterly, and by 12 for any
\* unrecognized or missing frequency (stated here for lower-case frequencies).
C3_AnnualizeBothAnnualizers ==
    (op \in {"calculate_annual_impact", "process_bottleneck"}
        /\ Lower(GivenFrequency) = GivenFrequency) =>
        /\ Annualized[1] = RMul(record.data.time_impact_hours,
                                R(OccurrencesPerYear(GivenFrequency)))
        /\ Annualized[2] = RMul(record.data.cost_impact,
                                R(OccurrencesPerYear(GivenFrequency)))

\* The priority of an annual cost by the thresholds 100,000, 50,000 and
\* 10,000, each exclusive.
PriorityByCost(annual_cost) ==
    CASE annual_cost.n > 100000 * annual_cost.d -> "critical"
      [] annual_cost.n <= 100000 * annual_cost.d
           /\ annual_cost.n > 50000 * annual_cost.d -> "high"
      [] annual_cost.n <= 50000 * annual_cost.d
           /\ annual_cost.n > 10000 * annual_cost.d -> "medium"
      [] OTHER -> "low"

\* C13: a record processed without a priority gets critical when its
\* annual_cost_impact is above 100,000, else high above 50,000, else medium
\* above 10,000, else low, the comparisons being strict (exactly 100,000 is
\* high, 50,000 medium, 10,000 low); a supplied priority is left as it is.
C13_DefaultPriority ==
    [][ op' = "process_bottleneck" =>
          /\ PriorityByCost(R(100000)) = "high"
          /\ PriorityByCost(R(50000)) = "medium"
          /\ PriorityByCost(R(10000)) = "low"
          /\ record'.data["priority"] =
                IF "priority" \in DOMAIN record.data
                THEN record.data["priority"]
                ELSE PriorityByCost(record'.data["annual_cost_impact"]) ]_vars

\* An annual cost of exactly 50,000 got the default priority medium (the
\* supplied priorities are all "high").
C13_Witness ==
    /\ op = "process_bottleneck"
    /\ result.data["annual_cost_impact"] = R(50000)
    /\ result.data["priority"] = "medium"

----------------------------------------------------------------------------
(* Properties of a BusinessAnalyzer across calls (Spec, SpecCalls).        *)

\* C5: the analyzer keeps no state across calls: after any calls its own
\* state is what it was before the first call (self.calculations empty).
C5_NoStateKept == calculations = <<>>

\* What the call returns when it runs alone on a new analyzer.
AloneResult(call) ==
    IF call.operation = "calculate_portfolio_roi"
    THEN calculate_portfolio_roi(call.bottleneck_list, call.company_metrics)
    ELSE generate_executive_summary(call.company_metrics, call.bottleneck_list)

SameCall(x, y) ==
    /\ x.operation = y.operation
    /\ x.bottleneck_list = y.bottleneck_list
    /\ x.company_metrics = y.company_metrics

\* C6: interleaved calculate_portfolio / executive_summary calls on a shared
\* analyzer each return what the same call returns when run alone, and calls
\* with identical inputs return identical results.
C6_InterleavedCalls ==
    /\ \A c \in Callers :
          calls[c].pc = "done" => calls[c].result = AloneResult(calls[c])
    /\ \A c, d \in Callers :
          (calls[c].pc = "done" /\ calls[d].pc = "done" /\ SameCall(calls[c], calls[d]))
              => calls[c].result = calls[d].result

\* Two calls of two different items each, in opposite orders, whose items were
\* computed alternately (a, b, a, b), both returned.
C6_Witness ==
    /\ calls["a"].pc = "done" /\ calls["b"].pc = "done"
    /\ ~IsRaised(calls["a"].result) /\ ~IsRaised(calls["b"].result)
    /\ Len(calls["a"].portfolio_calculations) = 2
    /\ Len(calls["b"].portfolio_calculations) = 2
    /\ Len(calculations) = 4
    /\ calls["a"].portfolio_calculations[1] # calls["b"].portfolio_calculations[1]
    /\ calls["a"].portfolio_calculations[2] # calls["b"].portfolio_calculations[2]
    /\ calculations[1] = calls["a"].portfolio_calculations[1]
    /\ calculations[2] = calls["b"].portfolio_calculations[1]
    /\ calculations[3] = calls["a"].portfolio_calculations[2]
    /\ calculations[4] = calls["b"].portfolio_calculations[2]

----------------------------------------------------------------------------
(* Properties of the portfolio of an empty list (Spec).                    *)

\* C11: calculate_portfolio with an empty bottleneck list returns the four
\* totals 0, portfolio ROI 0 and portfolio payback 0 (not infinity), and empty
\* lists of individual projects, recommendations and phases.
C11_EmptyPortfolio ==
    (op = "calculate_portfolio_roi" /\ bottlenecks = <<>>) =>
        /\ ~IsRaised(result)
        /\ result.portfolio_summary.total_current_cost = Zero
        /\ result.portfolio_summary.total_improved_cost = Zero
        /\ result.portfolio_summary.total_implementation_cost = Zero
        /\ result.portfolio_summary.total_annual_savings = Zero
        /\ result.portfolio_summary.portfolio_roi_percentage = Zero
        /\ result.portfolio_summary.portfolio_payback_months = Zero
        /\ result.individual_projects = <<>>
        /\ result.recommendations = <<>>
        /\ result.implementation_phases = <<>>

\* The portfolio call on the empty list has returned.
C11_Witness ==
    /\ Returned("calculate_portfolio_roi")
    /\ bottlenecks = <<>>
    /\ result.portfolio_summary.number_of_improvements = 0

----------------------------------------------------------------------------
(* Properties of the report flow (SpecReport).                             *)

\* The annualized figure of a stored row: its per-occurrence value times the
\* occurrences per year the pipeline used when it processed the record.
AnnualizedRow(row, field) ==
    RMul(row[field],
         R(Get(processor_frequency_multiplier,
               IF row.frequency = NoneStr THEN "weekly" ELSE row.frequency, 52)))

AnnualizedTotal(rows, field) ==
    RSum(AsSeq([k \in 1..Len(rows) |-> AnnualizedRow(rows[k], field)]))

\* C12: in the report flow (bottlenecks processed by the pipeline and read
\* back with get_bottlenecks) the executive summary is returned and its
\* total_inefficiency_hours_annual and total_inefficiency_cost_annual are the
\* sums over all bottlenecks of the annualized hours and the annualized cost.
C12_SummaryTotalsAnnualized ==
    op = "generate_report" =>
        /\ ~IsRaised(result)
        /\ result.key_findings.total_inefficiency_hours_annual =
               AnnualizedTotal(bottlenecks, "time_impact_hours")
        /\ result.key_findings.total_inefficiency_cost_annual =
               AnnualizedTotal(bottlenecks, "cost_impact")

----------------------------------------------------------------------------
(* Properties of calculate_bottleneck_roi and benchmark_against_industry   *)
(* over the grids (SpecItem).                                              *)

\* The benchmark entry of an industry name given in lower case.
EntryOfIndustry(lower_case_name) ==
    CASE lower_case_name = "legal" -> INDUSTRY_BENCHMARKS.legal
      [] lower_case_name = "accounting" -> INDUSTRY_BENCHMARKS.accounting
      [] lower_case_name = "consulting" -> INDUSTRY_BENCHMARKS.consulting
      [] lower_case_name = "msp" -> INDUSTRY_BENCHMARKS.msp
      [] OTHER -> INDUSTRY_BENCHMARKS.default

\* The hourly cost of the company of the call, by the three rules.
HourlyCostByRule ==
    IF "average_hourly_cost" \in DOMAIN company
    THEN company.average_hourly_cost
    ELSE IF company.annual_revenue.n > 0 /\ company.employee_count.n > 0
    THEN RDiv(RMul(company.annual_revenue, Rat(6, 10)),
              RMul(company.employee_count, R(2000)))
    ELSE EntryOfIndustry(Lower(Get(company, "industry", ""))).typical_hourly_rate

\* C14: the hourly cost calculate_bottleneck_roi uses (current_cost is the
\* annual hours times it) is the average_hourly_cost override when given,
\* else annual_revenue * 0.6 / (employee_count * 2000) when both are
\* positive, else the typical_hourly_rate of the industry's benchmark entry,
\* matched case-insensitively, the default entry (75) when unmatched.
C14_HourlyCost ==
    Returned("calculate_bottleneck_roi") =>
        /\ INDUSTRY_BENCHMARKS.default.typical_hourly_rate = R(75)
        /\ result.current_cost =
              RMul(bottlenecks[1].annual_hours_impact, HourlyCostByRule)

\* The three rules are met: an override, a derived cost, the rate of "Legal"
\* matched as legal.
C14_Witness ==
    /\ Returned("calculate_bottleneck_roi")
    /\ "average_hourly_cost" \notin DOMAIN company
    /\ company.annual_revenue = Zero
    /\ Get(company, "industry", "") = "Legal"
    /\ result.current_cost = RMul(R(1040), R(300))

\* The automation potential of the call's bottleneck, 0.7 when it is unset
\* (absent, or present with the value None).
PotentialOrDefault ==
    IF "automation_potential" \in DOMAIN bottlenecks[1]
       /\ bottlenecks[1].automation_potential # NoneVal
    THEN bottlenecks[1].automation_potential
    ELSE Rat(7, 10)

\* C15: calculate_bottleneck_roi never fails on an unset automation_potential
\* (absent, or present but None as in a stored row): it uses 0.7 then; in
\* general improved_cost = current_cost * (1 - automation_potential) and
\* annual_savings = current_cost - improved_cost.
C15_UnsetPotential ==
    op = "calculate_bottleneck_roi" =>
        /\ ~IsRaised(result)
        /\ result.improved_cost =
              RMul(result.current_cost, RSub(R(1), PotentialOrDefault))
        /\ result.annual_savings =
              RSub(result.current_cost, result.improved_cost)

\* The complexity given with the call's bottleneck, AbsentStr when missing.
GivenComplexity == Get(bottlenecks[1], "solution_complexity", AbsentStr)

\* (implementation_cost, time_to_implement_days) by complexity.
CostAndDays(complexity) ==
    CASE complexity = "low" -> <<R(10000), 30>>
      [] complexity = "high" -> <<R(50000), 90>>
      [] OTHER -> <<R(25000), 60>>

\* The per-occurrence fields of the spec's example.
ExampleOccurrence ==
    [name |-> "Manual client intake", frequency |-> "weekly",
     time_impact_hours |-> R(20), cost_impact |-> R(3000)]

\* C16: solution_complexity low, medium, high gives implementation_cost
\* 10,000, 25,000, 50,000 and time_to_implement_days 30, 60, 90; a missing or
\* unrecognized complexity gives 25,000 and 60.  In the spec's example (weekly,
\* 20 hours and 3000 per occurrence, medium) the annual hours are 1040, the
\* annual cost 156,000, the implementation cost 25,000 and the time 60 days.
C16_ComplexityMapping ==
    Returned("calculate_bottleneck_roi") =>
        /\ result.implementation_cost = CostAndDays(GivenComplexity)[1]
        /\ result.time_to_implement_days = CostAndDays(GivenComplexity)[2]
        /\ CostAndDays("medium") = <<R(25000), 60>>
        /\ calculate_annual_impact(ExampleOccurrence) = <<R(1040), R(156000)>>
        /\ process_bottleneck([id |-> "", data |-> ExampleOccurrence], 1)
               .data["annual_hours_impact"] = R(1040)
        /\ process_bottleneck([id |-> "", data |-> ExampleOccurrence], 1)
               .data["annual_cost_impact"] = R(156000)

\* An unrecognized complexity was priced.
C16_Witness ==
    /\ Returned("calculate_bottleneck_roi")
    /\ GivenComplexity = "extreme"
    /\ result.implementation_cost = R(25000)
    /\ result.time_to_implement_days = 60

\* Whether the dict has the numeric key with a value that is neither None
\* nor 0.
Present(dict, key) == key \in DOMAIN dict /\ dict[key] \notin {NoneVal, Zero}

\* How many of the five fields of the call are present and non-zero.
PresentFields ==
    Cardinality({key \in {"time_impact_hours", "cost_impact"} :
                    Present(bottlenecks[1], key)})
    + (IF "frequency" \in DOMAIN bottlenecks[1]
          /\ bottlenecks[1].frequency # "" THEN 1 ELSE 0)
    + Cardinality({key \in {"annual_revenue", "employee_count"} :
                    Present(company, key)})

\* C17: confidence_level is 0.5 plus 0.1 per field present and non-zero among
\* time_impact_hours, cost_impact, frequency, annual_revenue and
\* employee_count, capped at 1.0: it lies in [0.5, 1.0], it is 0.5 when none
\* of the five counts, and it is 1.0 exactly when all five are present and
\* non-zero.
C17_ConfidenceLevel ==
    Returned("calculate_bottleneck_roi") =>
        /\ ~DoubleLt(result.confidence_level, DoubleHalf)
        /\ ~DoubleLt(DoubleOne, result.confidence_level)
        /\ PresentFields = 0 => result.confidence_level = DoubleHalf
        /\ result.confidence_level = DoubleOne <=> PresentFields = 5

\* max(employee_count, 1) for the company of the call.
DivisorOfRevenue ==
    IF company.employee_count.n > company.employee_count.d
    THEN company.employee_count
    ELSE R(1)

\* C20: benchmark_against_industry reports as the company's
\* revenue_per_employee annual_revenue / max(employee_count, 1): with an
\* employee_count of 0 the divisor is 1 and the value is annual_revenue
\* itself, and no division by zero occurs.
C20_RevenuePerEmployee ==
    op = "benchmark_against_industry" =>
        /\ ~IsRaised(result)
        /\ result.revenue_per_employee.company =
              RDiv(company.annual_revenue, DivisorOfRevenue)

\* The rating of a difference percentage: above 20, above -20, the rest.
RatingOf(difference) ==
    CASE difference.n > 20 * difference.d -> "Above Average"
      [] difference.n <= 20 * difference.d
           /\ difference.n > (-20) * difference.d -> "Average"
      [] OTHER -> "Below Average"

\* C21: benchmark_against_industry rates the company from
\* difference_percentage = (company revenue_per_employee - benchmark) /
\* benchmark * 100: Above Average above 20, Average above -20 up to 20 (at
\* the benchmark and exactly 20% above it included), Below Average otherwise
\* (exactly -20 included); improvement_potential is (benchmark - company
\* revenue_per_employee) * employee_count when Below Average, else 0.
C21_PerformanceRating ==
    Returned("benchmark_against_industry") =>
        /\ result.revenue_per_employee.difference_percentage =
              RMul(RDiv(RSub(result.revenue_per_employee.company,
                             result.revenue_per_employee.industry_average),
                        result.revenue_per_employee.industry_average), R(100))
        /\ result.performance_rating =
              RatingOf(result.revenue_per_employee.difference_percentage)
        /\ RatingOf(Zero) = "Average"
        /\ RatingOf(R(20)) = "Average"
        /\ RatingOf(R(-20)) = "Below Average"
        /\ result.improvement_potential =
              IF result.performance_rating = "Below Average"
              THEN RMul(RSub(result.revenue_per_employee.industry_average,
                             result.revenue_per_employee.company),
                        company.employee_count)
              ELSE Zero

\* A company exactly 20% below the benchmark is rated Below Average and has
\* an improvement potential of 40,000 for each of its 45 employees.
C21_Witness ==
    /\ Returned("benchmark_against_industry")
    /\ result.revenue_per_employee.difference_percentage = R(-20)
    /\ result.performance_rating = "Below Average"
    /\ result.improvement_potential = R(1800000)

\* Whether the value of a required numeric field is one the validation
\* boundary has to reject: not a number, or a negative one.
Unacceptable(value) == DOMAIN value # {"n", "d"} \/ value.n < 0

\* C23: a bottleneck record whose time_impact_hours or cost_impact is
\* negative or non-numeric is rejected at the validation boundary:
\* pipeline.process raises for it, and the record is never annualized nor
\* stored (so no such row reaches the ROI engine through the table).
C23_InvalidFiguresRejected ==
    /\ (op = "process"
          /\ {"time_impact_hours", "cost_impact"} \subseteq DOMAIN record.data
          /\ (Unacceptable(record.data["time_impact_hours"])
                \/ Unacceptable(record.data["cost_impact"])))
        => (IsRaised(result) /\ "annual_cost_impact" \notin DOMAIN record.data)
    /\ \A k \in 1..Len(db_bottlenecks) :
          /\ ~Unacceptable(db_bottlenecks[k].time_impact_hours)
          /\ ~Unacceptable(db_bottlenecks[k].cost_impact)

\* Whether the data passes the bottleneck validator's rule: the four
\* required keys, and numbers for the two figures.
PassesValidation(data) ==
    /\ \A key \in {"consultation_id", "name", "time_impact_hours", "cost_impact"} :
          key \in DOMAIN data
    /\ DOMAIN data["time_impact_hours"] = {"n", "d"}
    /\ DOMAIN data["cost_impact"] = {"n", "d"}

\* C24: DataPipeline.process validates, then processes, then stores: for a
\* record its validator rejects it raises ValueError before the processor
\* runs and before anything is written (table and record unchanged); a
\* record is stored only after the validator accepted it and the processor
\* ran (it has its id and its annual figures when its row is written).
C24_ValidateProcessStore ==
    [][ op' = "process" =>
          IF PassesValidation(record'.data)
          THEN /\ record'.id # ""
               /\ {"annual_hours_impact", "annual_cost_impact", "priority"}
                     \subseteq DOMAIN record'.data
               /\ \/ result' = record'
                        /\ Len(db_bottlenecks') = Len(db_bottlenecks) + 1
                        /\ SubSeq(db_bottlenecks', 1, Len(db_bottlenecks)) = db_bottlenecks
                        /\ db_bottlenecks'[Len(db_bottlenecks')].id = record'.id
                  \/ IsRaised(result') /\ db_bottlenecks' = db_bottlenecks
          ELSE /\ result' = Raised("ValueError")
               /\ db_bottlenecks' = db_bottlenecks
               /\ record'.id = ""
               /\ "annual_hours_impact" \notin DOMAIN record'.data ]_vars

\* A record was rejected after another had been stored: the table still
\* holds that one row.
C24_Witness ==
    /\ op = "process"
    /\ result = Raised("ValueError")
    /\ record.id = ""
    /\ Len(db_bottlenecks) = 1

----------------------------------------------------------------------------
(* The conversation engine: core/business_doctor_engine.py                 *)
(*                                                                         *)
(* An entry of the conversation history is modelled by its role; the text  *)
(* of the entry and its timestamp are not.  What the language model        *)
(* extracts from an input is an input of the model, drawn from Extractions.*)

\* list(ConversationStage), by value.
stage_order ==
    <<"opening", "company_overview", "pain_points", "process_discovery",
      "bottleneck_analysis", "financial_impact", "solution_exploration",
      "closing">>

\* stage_order.index(stage), counted from 1.
stage_index(stage) == CHOOSE i \in DOMAIN stage_order : stage_order[i] = stage

\* BusinessMetrics(): the four fields the engine writes.
BusinessMetrics ==
    [company_name |-> "", industry |-> "", employee_count |-> Zero,
     annual_revenue |-> Zero]

\* BusinessDoctorEngine.__init__
BusinessDoctorEngine ==
    [metrics |-> BusinessMetrics, bottlenecks |-> <<>>,
     conversation_history |-> <<>>, current_stage |-> "opening"]

\* The ProcessBottleneck _update_business_data creates from a challenge.
ProcessBottleneck(challenge) ==
    [name |-> "Challenge: " \o Take(challenge, 50), description |-> challenge,
     department |-> "TBD", frequency |-> "daily", time_impact_hours |-> R(5),
     cost_impact |-> R(375), automation_potential |-> Rat(7, 10),
     priority |-> "medium"]

\* The bottlenecks after the loop over the extracted challenges.
bottlenecks_with(held, challenges) ==
    held \o AsSeq([i \in 1..Len(SelectSeq(challenges, LAMBDA c : Len(c) > 10)) |->
                     ProcessBottleneck(SelectSeq(challenges, LAMBDA c : Len(c) > 10)[i])])

\* The metrics after the company_info and financial_data entries are read.
metrics_with(metrics, company_info, financial_data) ==
    [company_name |-> Get(company_info, "name", metrics.company_name),
     employee_count |-> Get(company_info, "employee_count", metrics.employee_count),
     industry |-> Get(company_info, "industry", metrics.industry),
     annual_revenue |-> Get(financial_data, "revenue", metrics.annual_revenue)]

\* BusinessDoctorEngine._update_business_data: an entry that is absent or
\* empty is falsy and changes nothing.
_update_business_data(self, extracted_data) ==
    [self EXCEPT
       !.metrics = metrics_with(@, Get(extracted_data, "company_info", <<>>),
                                Get(extracted_data, "financial_data", <<>>)),
       !.bottlenecks = bottlenecks_with(@, Get(extracted_data, "challenges", <<>>))]

\* Variant: the stage after the current one, whatever has been collected.
_advance_conversation_stage_always(self) ==
    IF stage_index(self.current_stage) < Len(stage_order)
    THEN stage_order[stage_index(self.current_stage) + 1]
    ELSE self.current_stage

\* BusinessDoctorEngine._advance_conversation_stage: the stage after the call.
_advance_conversation_stage(self) ==
    IF self.current_stage = "opening" /\ self.metrics.company_name # ""
    THEN "company_overview"
    ELSE IF self.current_stage = "company_overview"
            /\ RGt(self.metrics.employee_count, Zero)
    THEN "pain_points"
    ELSE IF self.current_stage = "pain_points" /\ Len(self.bottlenecks) > 0
    THEN "process_discovery"
    ELSE IF Len(self.conversation_history) > 20
            /\ stage_index(self.current_stage) < Len(stage_order)
    THEN stage_order[stage_index(self.current_stage) + 1]
    ELSE self.current_stage

\* The engine when the user entry and the assistant entry are in the history
\* and the extracted data has been read.
engine_after_reply(self, extracted_data) ==
    [_update_business_data(self, extracted_data) EXCEPT
       !.conversation_history = @ \o <<[role |-> "user"], [role |-> "assistant"]>>]

\* Variant: the call leaves the stage where it is.
process_input_in_place(self, extracted_data) ==
    engine_after_reply(self, extracted_data)

\* BusinessDoctorEngine.process_input: the engine after the call.
process_input(self, extracted_data) ==
    [engine_after_reply(self, extracted_data) EXCEPT
       !.current_stage =
           _advance_conversation_stage(engine_after_reply(self, extracted_data))]

\* What process_input returns (the response text is not modelled).
process_input_result(self, extracted_data) ==
    [extracted_data |-> extracted_data,
     current_stage |-> process_input(self, extracted_data).current_stage,
     bottlenecks_found |-> Len(process_input(self, extracted_data).bottlenecks)]

\* BusinessDoctorEngine.generate_diagnostic_report: the overview, the list
\* of bottlenecks with their annual figures, the totals and the duration
\* (the recommendations and the fixed roadmap are left out).
generate_diagnostic_report(self) ==
    [company_overview |-> self.metrics,
     bottlenecks_identified |->
         [i \in 1..Len(self.bottlenecks) |->
            [name |-> self.bottlenecks[i].name,
             description |-> self.bottlenecks[i].description,
             annual_hours_impact |-> calculate_annual_impact(self.bottlenecks[i])[1],
             annual_cost_impact |-> calculate_annual_impact(self.bottlenecks[i])[2],
             automation_potential |-> self.bottlenecks[i].automation_potential,
             priority |-> self.bottlenecks[i].priority]],
     total_impact |->
         [annual_hours_wasted |->
              RSum([i \in 1..Len(self.bottlenecks) |->
                      IF self.bottlenecks[i].frequency = "weekly"
                      THEN RMul(self.bottlenecks[i].time_impact_hours, R(52))
                      ELSE Zero]),
          annual_cost_impact |->
              RSum([i \in 1..Len(self.bottlenecks) |->
                      IF self.bottlenecks[i].frequency = "weekly"
                      THEN RMul(self.bottlenecks[i].cost_impact, R(52))
                      ELSE Zero]),
          potential_roi |->
              RMul(RSum([i \in 1..Len(self.bottlenecks) |->
                           IF self.bottlenecks[i].frequency = "weekly"
                           THEN RMul(self.bottlenecks[i].cost_impact, R(52))
                           ELSE Zero]), Rat(7, 10))],
     conversation_duration |-> Len(self.conversation_history)]

----------------------------------------------------------------------------
(* SpecEngine: process_input calls on a new engine, and the report.        *)

\* What _extract_information can return: the keyword fallback (every entry
\* empty), and answers of the language model with some of the entries, typed
\* as BusinessMetrics declares them.  The challenges: two ordinary texts, one
\* of ten characters at most and one of more than fifty characters.
Extractions ==
    { [company_info |-> <<>>, financial_data |-> <<>>, processes |-> <<>>,
       challenges |-> <<>>, metrics |-> <<>>],
      [company_info |-> [name |-> "Smith Law Firm"]],
      [company_info |-> [employee_count |-> R(45), industry |-> "Legal"],
       financial_data |-> [revenue |-> R(8500000)]],
      [challenges |-> <<"Scheduling takes all day">>],
      [challenges |-> <<"Invoices are typed twice", "Too slow">>],
      [challenges |->
         <<"Client intake forms are copied by hand into billing every morning">>] }

MaxCalls == 18

MaxChallenges == 3

InitEngine ==
    /\ calculations = <<>>
    /\ bottlenecks = <<>>
    /\ company = Unknown
    /\ op = "none"
    /\ result = NoResult
    /\ calls = NoCalls
    /\ record = NoRecord
    /\ db_bottlenecks = <<>>
    /\ engine = BusinessDoctorEngine
    /\ terminal_consultation_id = NoneStr
    /\ db_consultations = <<>>

\* engine.process_input(user_input)
ProcessInput ==
    /\ Len(engine.conversation_history) < 2 * MaxCalls
    /\ \E extracted_data \in Extractions :
          /\ Len(process_input(engine, extracted_data).bottlenecks) <= MaxChallenges
          /\ engine' = process_input(engine, extracted_data)
          /\ result' = process_input_result(engine, extracted_data)
    /\ op' = "process_input"
    /\ UNCHANGED <<calculations, bottlenecks, company, calls, record,
                   db_bottlenecks, terminal_consultation_id, db_consultations>>

\* engine.generate_diagnostic_report()
GenerateDiagnosticReport ==
    /\ result' = generate_diagnostic_report(engine)
    /\ op' = "generate_diagnostic_report"
    /\ UNCHANGED <<calculations, bottlenecks, company, calls, record,
                   db_bottlenecks, engine, terminal_consultation_id, db_consultations>>

NextEngine ==
    \/ ProcessInput
    \/ GenerateDiagnosticReport

SpecEngine == InitEngine /\ [][NextEngine]_vars

----------------------------------------------------------------------------
(* Properties of the conversation engine                                   *)

\* C25: over process_input calls the stage never goes back in the order
\* opening .. closing, a call advances it by at most one stage, closing stays
\* closing, and a stage after process_discovery is held only with more than
\* 20 entries in the conversation history.
C25_StageOnlyForward ==
    [][ engine' # engine =>
          /\ stage_index(engine'.current_stage) >= stage_index(engine.current_stage)
          /\ stage_index(engine'.current_stage) <= stage_index(engine.current_stage) + 1
          /\ engine.current_stage = "closing" => engine'.current_stage = "closing"
          /\ stage_index(engine'.current_stage) > stage_index("process_discovery")
                => Len(engine'.conversation_history) > 20 ]_vars

\* A call was made on an engine that had already reached closing.
C25_Witness ==
    /\ op = "process_input"
    /\ engine.current_stage = "closing"
    /\ Len(engine.conversation_history) > 34

\* C26: on a new engine the stage is closing after 17 completed process_input
\* calls at the latest, whatever was extracted; from the 11th call on, each
\* call made before closing advances the stage by exactly one.
C26_ClosingWithin17Calls ==
    [][ engine' # engine =>
          /\ Len(engine'.conversation_history) >= 2 * 17
                => engine'.current_stage = "closing"
          /\ ( Len(engine'.conversation_history) >= 2 * 11
               /\ engine.current_stage # "closing" )
                => stage_index(engine'.current_stage)
                     = stage_index(engine.current_stage) + 1 ]_vars

\* Nothing was ever extracted, and the 17th call has just reached closing.
C26_Witness ==
    /\ op = "process_input"
    /\ Len(engine.conversation_history) = 2 * 17
    /\ engine.metrics = BusinessMetrics
    /\ engine.bottlenecks = <<>>
    /\ engine.current_stage = "closing"

\* C30: in the diagnostic report the totals annual_hours_wasted and
\* annual_cost_impact are the sums of annual_hours_impact and
\* annual_cost_impact over the report's bottlenecks_identified list.
C30_ReportTotalsMatchList ==
    op = "generate_diagnostic_report" =>
       /\ result.total_impact.annual_hours_wasted
            = RSum([i \in 1..Len(result.bottlenecks_identified) |->
                      result.bottlenecks_identified[i].annual_hours_impact])
       /\ result.total_impact.annual_cost_impact
            = RSum([i \in 1..Len(result.bottlenecks_identified) |->
                      result.bottlenecks_identified[i].annual_cost_impact])

----------------------------------------------------------------------------
(* The terminal application and the consultations table:                   *)
(* core/terminal_app.py, core/data_pipeline.py                             *)
(*                                                                         *)
(* The clock of a terminal run reads the number of history entries written *)
(* so far; datetime.now().isoformat() is the text of that reading.         *)

isoformat(now) == ToString(now)

\* json.dumps(value): the TEXT a column holds; json.loads(text): its value.
json_dumps(value) == [json |-> value]
json_loads(text) == text.json

\* DataValidators.validate_consultation: client_id present and not empty.
validate_consultation(rec) == TruthyStr(rec.data, "client_id")

\* DataProcessors.process_consultation: an id when the record has none, and
\* the entries start_time, conversation and metrics when they are missing.
process_consultation(rec, now) ==
    [id |-> IF Len(rec.id) = 0 THEN generate_id("consultation", rec.data, now)
            ELSE rec.id,
     data |-> rec.data @@ ("start_time" :> isoformat(now))
                @@ ("conversation" :> <<>>) @@ ("metrics" :> <<>>)]

\* DataPipeline._store_consultation: INSERT OR REPLACE of the row of the id.
_store_consultation(table, rec, now) ==
    SelectSeq(table, LAMBDA row : row.id # rec.id)
      \o << [id |-> rec.id,
             client_id |-> Get(rec.data, "client_id", NoneStr),
             company_name |-> Get(rec.data, "company_name", NoneStr),
             start_time |-> Get(rec.data, "start_time", NoneStr),
             end_time |-> Get(rec.data, "end_time", NoneStr),
             status |-> Get(rec.data, "status", "in_progress"),
             conversation_data |-> json_dumps(Get(rec.data, "conversation", <<>>)),
             metrics_data |-> json_dumps(Get(rec.data, "metrics", <<>>)),
             created_at |-> isoformat(now)] >>

\* DataPipeline.process for a consultation record: what it returns (or
\* raises) and the consultations table after the call.
process_consultation_record(table, rec, now) ==
    IF ~validate_consultation(rec)
    THEN [returned |-> Raised("ValueError"), table |-> table]
    ELSE [returned |-> process_consultation(rec, now),
          table |-> _store_consultation(table, process_consultation(rec, now), now)]

\* DataPipeline.get_consultation: the row as a dict with the two JSON
\* columns parsed, or None.
get_consultation(table, consultation_id) ==
    IF \E k \in 1..Len(table) : table[k].id = consultation_id
    THEN [table[CHOOSE k \in 1..Len(table) : table[k].id = consultation_id]
            EXCEPT !.conversation_data = json_loads(@),
                   !.metrics_data = json_loads(@)]
    ELSE NoneVal

\* The company_metrics dict the terminal builds from the engine.
company_metrics_of(self) ==
    [company_name |-> self.metrics.company_name,
     employee_count |-> self.metrics.employee_count,
     annual_revenue |-> self.metrics.annual_revenue,
     industry |-> self.metrics.industry]

\* The data of the DataRecord store_bottlenecks builds for a bottleneck.
bottleneck_record_data(consultation_id, bottleneck) ==
    [consultation_id |-> consultation_id, name |-> bottleneck.name,
     description |-> bottleneck.description, department |-> bottleneck.department,
     frequency |-> bottleneck.frequency,
     time_impact_hours |-> bottleneck.time_impact_hours,
     cost_impact |-> bottleneck.cost_impact,
     automation_potential |-> bottleneck.automation_potential,
     priority |-> bottleneck.priority]

\* Variant: the bottleneck is stored without a look at the stored names.
store_bottleneck_unchecked(table, bottleneck, consultation_id, now) ==
    process(table, [id |-> "",
                    data |-> bottleneck_record_data(consultation_id, bottleneck)],
            now)

\* One round of the loop of store_bottlenecks: nothing when a stored row of
\* the consultation has the name, pipeline.process of a new record otherwise.
store_bottleneck(table, bottleneck, consultation_id, now) ==
    IF \E rows \in get_bottlenecks(table, consultation_id) :
          \E k \in 1..Len(rows) : rows[k].name = bottleneck.name
    THEN [returned |-> NoneVal, table |-> table]
    ELSE process(table, [id |-> "",
                         data |-> bottleneck_record_data(consultation_id, bottleneck)],
                 now)

\* BusinessDoctorTerminal.store_bottlenecks over the engine's bottlenecks:
\* the bottlenecks table after the loop, and the exception that ended it.
RECURSIVE store_bottlenecks(_, _, _, _)
store_bottlenecks(table, todo, consultation_id, now) ==
    IF todo = <<>>
    THEN [table |-> table]
    ELSE IF IsRaised(store_bottleneck(table, Head(todo), consultation_id, now).returned)
    THEN [raised |-> store_bottleneck(table, Head(todo), consultation_id, now).returned.raised,
          table |-> table]
    ELSE store_bottlenecks(
             store_bottleneck(table, Head(todo), consultation_id, now).table,
             Tail(todo), consultation_id, now)

\* The DataRecord end_consultation builds from the consultation read back.
end_consultation_record(consultation, self, now) ==
    [id |-> consultation.id,
     data |-> ( "end_time" :> isoformat(now) @@ "status" :> "completed"
                @@ "conversation_data" :> self.conversation_history
                @@ "metrics_data" :> company_metrics_of(self) )
              @@ consultation]

\* The consultations table after end_consultation has stored the record.
end_consultation(table, consultation_id, self, now) ==
    IF get_consultation(table, consultation_id) = NoneVal
    THEN table
    ELSE process_consultation_record(
             table,
             end_consultation_record(get_consultation(table, consultation_id), self, now),
             now).table

----------------------------------------------------------------------------
(* SpecTerminal: consultations in one run of the terminal application.     *)

MaxTurns == 3

InitTerminal ==
    /\ calculations = <<>>
    /\ bottlenecks = <<>>
    /\ company = Unknown
    /\ op = "none"
    /\ result = NoResult
    /\ calls = NoCalls
    /\ record = NoRecord
    /\ db_bottlenecks = <<>>
    /\ engine = BusinessDoctorEngine
    /\ terminal_consultation_id = NoneStr
    /\ db_consultations = <<>>

\* The conversation is at its prompt: a consultation has started, and no
\* call has raised.
AtPrompt == op \in {"start_consultation", "turn"} /\ ~IsRaised(result)

\* start_consultation up to the first prompt of run_conversation: the
\* consultation record goes through the pipeline, then the greeting call
\* engine.process_input("").
StartConsultation ==
    /\ op = "none" \/ (op = "end_consultation" /\ ~IsRaised(result))
    /\ Len(engine.conversation_history) < 2 * MaxTurns
    /\ \E client_id \in {"", "owner@smithlaw.example"}, extracted_data \in Extractions :
          LET now == Len(engine.conversation_history)
              started == process_consultation_record(
                             db_consultations,
                             [id |-> "",
                              data |-> [client_id |-> client_id,
                                        start_time |-> isoformat(now),
                                        status |-> "in_progress"]],
                             now)
          IN  IF IsRaised(started.returned)
              THEN /\ result' = started.returned
                   /\ UNCHANGED <<engine, terminal_consultation_id, db_consultations,
                                  record>>
              ELSE /\ Len(process_input(engine, extracted_data).bottlenecks)
                         <= MaxChallenges
                   /\ db_consultations' = started.table
                   /\ terminal_consultation_id' = started.returned.id
                   /\ record' = started.returned
                   /\ engine' = process_input(engine, extracted_data)
                   /\ result' = process_input_result(engine, extracted_data)
    /\ op' = "start_consultation"
    /\ UNCHANGED <<calculations, bottlenecks, company, calls, db_bottlenecks>>

\* A turn of run_conversation: engine.process_input(user_input), then
\* store_bottlenecks().
Turn ==
    /\ AtPrompt
    /\ Len(engine.conversation_history) < 2 * (MaxTurns + 1)
    /\ \E extracted_data \in Extractions :
          LET talked == process_input(engine, extracted_data)
              stored == store_bottlenecks(db_bottlenecks, talked.bottlenecks,
                                          terminal_consultation_id,
                                          Len(talked.conversation_history))
          IN  /\ Len(talked.bottlenecks) <= MaxChallenges
              /\ engine' = talked
              /\ db_bottlenecks' = stored.table
              /\ result' = IF IsRaised(stored) THEN Raised(stored.raised)
                           ELSE process_input_result(engine, extracted_data)
    /\ op' = "turn"
    /\ UNCHANGED <<calculations, bottlenecks, company, calls, record,
                   terminal_consultation_id, db_consultations>>

\* 'exit' at the prompt: end_consultation stores the consultation, then
\* generate_report reads the bottlenecks back and asks for the summary.
EndConsultation ==
    /\ AtPrompt
    /\ record' = end_consultation_record(
                     get_consultation(db_consultations, terminal_consultation_id),
                     engine, Len(engine.conversation_history))
    /\ db_consultations' = end_consultation(db_consultations, terminal_consultation_id,
                                            engine, Len(engine.conversation_history))
    /\ company' = company_metrics_of(engine)
    /\ \E rows \in get_bottlenecks(db_bottlenecks, terminal_consultation_id) :
          /\ bottlenecks' = rows
          /\ result' = generate_executive_summary(company_metrics_of(engine), rows)
          /\ calculations' =
                 calculations \o appended_by_portfolio(rows, company_metrics_of(engine))
    /\ op' = "end_consultation"
    /\ UNCHANGED <<calls, db_bottlenecks, engine, terminal_consultation_id>>

NextTerminal ==
    \/ StartConsultation
    \/ Turn
    \/ EndConsultation

SpecTerminal == InitTerminal /\ [][NextTerminal]_vars

----------------------------------------------------------------------------
(* Properties of the terminal application                                  *)

\* The names of the bottlenecks the engine holds.
EngineNames == {engine.bottlenecks[i].name : i \in 1..Len(engine.bottlenecks)}

\* The stored rows of the running consultation.
StoredRows == rows_of(db_bottlenecks, terminal_consultation_id)

\* C27: after a turn (process_input, then store_bottlenecks) the rows stored
\* for the consultation are one row for each distinct bottleneck name the
\* engine holds: no name is stored twice and none is missing.
C27_OneRowPerName ==
    op = "turn" =>
       /\ ~IsRaised(result)
       /\ \A k \in 1..Len(StoredRows) : StoredRows[k].name \in EngineNames
       /\ \A name \in EngineNames :
             Cardinality({k \in 1..Len(StoredRows) : StoredRows[k].name = name}) = 1

\* After a turn the engine holds two bottlenecks of one name and a third of
\* another name, and two rows are stored.
C27_Witness ==
    /\ op = "turn"
    /\ Len(engine.bottlenecks) = 3
    /\ Cardinality(EngineNames) = 2
    /\ Len(StoredRows) = 2

\* C28: after end_consultation the consultation read back is completed, has
\* the end_time that was set and the engine's conversation history and
\* company metrics as conversation_data and metrics_data, and the table
\* holds one row of its id.
C28_ConsultationReadBack ==
    op = "end_consultation" =>
       /\ get_consultation(db_consultations, terminal_consultation_id).status
            = "completed"
       /\ get_consultation(db_consultations, terminal_consultation_id).end_time
            = record.data.end_time
       /\ get_consultation(db_consultations, terminal_consultation_id).conversation_data
            = engine.conversation_history
       /\ get_consultation(db_consultations, terminal_consultation_id).metrics_data
            = company_metrics_of(engine)
       /\ Cardinality({k \in 1..Len(db_consultations) :
                         db_consultations[k].id = terminal_consultation_id}) = 1

\* C29: in individual_projects a project ranked above another never has a
\* longer payback: payback_months does not decrease down the list, so that
\* the projects of +infinity payback come last.
C29_PaybackNonDecreasing ==
    Returned("calculate_portfolio_roi") =>
        \A i, j \in 1..Len(result.individual_projects) :
           i < j => ~RGt(result.individual_projects[i].payback_months,
                         result.individual_projects[j].payback_months)
============================================================================
